---------------------------- MODULE Spec2Model ----------------------------
(***************************************************************************)
(* GhostType audio enhancement engine v2 (src/python/enhancement_engine.py) *)
(* as a state machine.                                                      *)
(*                                                                          *)
(* Number representation.  The engine computes in float32/float64; the     *)
(* model computes in fixed point on TLC's 32-bit integers:                  *)
(*   - amplitudes and linear gains in thousandths (1000 is 1.0);            *)
(*   - smoothing coefficients in ten-thousandths (10000 is 1.0);            *)
(*   - levels in whole decibels, rounded down;                              *)
(*   - times in tenths of a millisecond (50 is 5.0 ms).                     *)
(* Every product is rounded to the nearest unit, half away from zero.       *)
(* NaN has no counterpart: the modelled inputs are finite.                  *)
(***************************************************************************)
EXTENDS Integers, Sequences, FiniteSets, TLC

(***************************************************************************)
(* Bounds of the model.                                                     *)
(***************************************************************************)
\* longest signal handed to process
MaxLen == 3
\* the 256-sample floor of the loudness measurement (line 299), scaled to
\* the signal lengths of the model
LufsMinSamples == 2

(***************************************************************************)
(* Arithmetic helpers.                                                      *)
(***************************************************************************)
Abs(x) == IF x < 0 THEN -x ELSE x

Max(a, b) == IF a >= b THEN a ELSE b

Min(a, b) == IF a <= b THEN a ELSE b

\* a / b rounded to the nearest integer, half away from zero (b > 0)
RoundDiv(a, b) == IF a >= 0 THEN (2 * a + b) \div (2 * b)
                  ELSE -((2 * (-a) + b) \div (2 * b))

\* a * b / c in fixed point
MulDiv(a, b, c) == RoundDiv(a * b, c)

\* Python's round(): a / b rounded to the nearest integer, half to even
\* (a >= 0, b > 0)
RoundHalfEven(a, b) ==
    LET q == a \div b
        r == a % b
    IN  IF 2 * r < b THEN q
        ELSE IF 2 * r > b THEN q + 1
        ELSE IF q % 2 = 0 THEN q ELSE q + 1

RECURSIVE SeqSum(_)
SeqSum(s) == IF s = <<>> THEN 0 ELSE Head(s) + SeqSum(Tail(s))

RECURSIVE SeqMax(_)
SeqMax(s) == IF s = <<>> THEN 0 ELSE Max(Head(s), SeqMax(Tail(s)))

RECURSIVE SeqMin(_)
SeqMin(s) == IF Len(s) = 1 THEN Head(s) ELSE Min(Head(s), SeqMin(Tail(s)))

\* the element of a one-element set.  { e(x) : x \in {v} } evaluates v once
\* and names its value x, where a LET definition is evaluated at every use
The(S) == CHOOSE v \in S : TRUE

\* np.abs
AbsSeq(s) == [i \in 1..Len(s) |-> Abs(s[i])]

\* the integer square root, by bisection on [lo, hi]
RECURSIVE IsqrtIn(_, _, _)
IsqrtIn(v, lo, hi) ==
    IF lo >= hi THEN lo
    ELSE LET mid == (lo + hi + 1) \div 2
         IN  IF mid * mid <= v THEN IsqrtIn(v, mid, hi)
             ELSE IsqrtIn(v, lo, mid - 1)

Isqrt(v) == IsqrtIn(v, 0, 46340)

\* the sequence sorted ascending (np.percentile sorts its input)
RECURSIVE SortAsc(_)
SortAsc(s) ==
    IF Len(s) <= 1 THEN s
    ELSE LET m == SeqMin(s)
             i == CHOOSE j \in 1..Len(s) : s[j] = m
         IN  <<m>> \o SortAsc(SubSeq(s, 1, i - 1) \o SubSeq(s, i + 1, Len(s)))

\* the elements of s at the positions where keep is TRUE (numpy boolean
\* indexing, signal[mask])
RECURSIVE SelectWhere(_, _)
SelectWhere(s, keep) ==
    IF s = <<>> THEN <<>>
    ELSE (IF Head(keep) THEN <<Head(s)>> ELSE <<>>)
         \o SelectWhere(Tail(s), Tail(keep))

NotSeq(m) == [i \in 1..Len(m) |-> ~m[i]]

AnyTrue(m) == \E i \in 1..Len(m) : m[i]

(***************************************************************************)
(* Decibels.  DbThreshold[k] is the least amplitude (thousandths) whose     *)
(* level is at least k - 61 dB, so that counting the thresholds at or      *)
(* below x gives floor(20 log10(x / 1000)) exactly for an integer x.       *)
(***************************************************************************)
DbThreshold ==
    <<1, 2, 2, 2, 2, 2, 2, 3, 3, 3, 4, 4, 4, 5, 6, 6, 7, 8, 8, 9,
      10, 12, 13, 15, 16, 18, 20, 23, 26, 29, 32, 36, 40, 45, 51, 57, 64,
      71, 80, 90, 100, 113, 126, 142, 159, 178, 200, 224, 252, 282, 317,
      355, 399, 447, 502, 563, 631, 708, 795, 892, 1000, 1123, 1259, 1413,
      1585, 1779, 1996, 2239, 2512, 2819, 3163, 3549, 3982, 4467, 5012,
      5624, 6310, 7080, 7944, 8913, 10000, 11221, 12590, 14126, 15849,
      17783, 19953, 22388, 25119, 28184, 31623, 35482, 39811, 44669, 50119,
      56235, 63096, 70795, 79433, 89126, 100000>>

\* 20 * log10(max(x, 1e-7)) for an amplitude x >= 0 in thousandths; an
\* amplitude below one thousandth reads as the 1e-7 floor, -140 dB
ToDb(x) ==
    IF x <= 0 THEN -140
    ELSE Cardinality({k \in 1..Len(DbThreshold) : DbThreshold[k] <= x}) - 61

\* 10 ** (d / 20) in thousandths, for d in -12 .. 24 dB
GainTable ==
    <<251, 282, 316, 355, 398, 447, 501, 562, 631, 708, 794, 891, 1000,
      1122, 1259, 1413, 1585, 1778, 1995, 2239, 2512, 2818, 3162, 3548,
      3981, 4467, 5012, 5623, 6310, 7079, 7943, 8913, 10000, 11220, 12589,
      14125, 15849>>

DbToLinear(d) == GainTable[d + 13]

\* math.exp(-1.0 / n) in ten-thousandths, n given in tenths (n10 >= 10),
\* by the Pade approximant (2n - 1) / (2n + 1)
ExpNegInv(n10) == RoundDiv(10000 * (2 * n10 - 10), 2 * n10 + 10)

(***************************************************************************)
(* Dictionaries (the stats report): functions on a set of string keys.     *)
(***************************************************************************)
EmptyDict == [k \in {} |-> TRUE]

\* dict.update: the entries of t, and those of s that t does not have
DictUpdate(s, t) == t @@ s

\* {f"dyn_{key}": value for key, value in limiter_stats.items()}
DynPrefixed(ls) ==
    [k2 \in {"dyn_" \o k : k \in DOMAIN ls} |->
        ls[CHOOSE k \in DOMAIN ls : "dyn_" \o k = k2]]

(***************************************************************************)
(* What a stage hands back: (signal, stats), or an exception that leaves    *)
(* the stage.                                                               *)
(***************************************************************************)
Ret(sig, st) == [signal |-> sig, stats |-> st, raised |-> FALSE]

Raise == [signal |-> <<>>, stats |-> EmptyDict, raised |-> TRUE]

\* an optional argument: <<>> is None, <<v>> carries v
None == <<>>

Some(v) == <<v>>

(***************************************************************************)
(* _clamp, np.clip(., -1.0, 1.0)                                            *)
(***************************************************************************)
clamp(value, lower, upper) == Max(lower, Min(upper, value))

ClipUnit(s) == [i \in 1..Len(s) |-> clamp(s[i], -1000, 1000)]

(***************************************************************************)
(* Signal metrics.                                                          *)
(***************************************************************************)
\* sqrt(mean(square(signal))); samples above 20.0 are squared at a coarser
\* step so that the sum of squares stays a 32-bit integer
RootMeanSquare(signal) ==
    LET a  == AbsSeq(signal)
        sc == IF SeqMax(a) > 20000 THEN 64 ELSE 1
        sq == [i \in 1..Len(a) |-> (a[i] \div sc) * (a[i] \div sc)]
    IN  sc * Isqrt(SeqSum(sq) \div Len(a))

estimate_rms_dbfs(signal) ==
    IF Len(signal) = 0 THEN -120 ELSE ToDb(RootMeanSquare(signal))

estimate_peak_dbfs(signal) ==
    IF Len(signal) = 0 THEN -120 ELSE ToDb(SeqMax(AbsSeq(signal)))

\* np.percentile(a, 20): linear interpolation between the order statistics
\* around position (n - 1) * 0.2
Percentile20(a) ==
    LET srt == SortAsc(a)
        pos == (Len(a) - 1) * 20
        lo  == pos \div 100
        fr  == pos % 100
    IN  IF fr = 0 THEN srt[lo + 1]
        ELSE srt[lo + 1] + MulDiv(srt[lo + 2] - srt[lo + 1], fr, 100)

\* a variant that reports the empty-input sentinel for silence as well
estimate_noise_floor_db_sentinel(signal) ==
    IF Len(signal) = 0 \/ SeqMax(AbsSeq(signal)) = 0 THEN -120
    ELSE ToDb(Percentile20(AbsSeq(signal)))

estimate_noise_floor_db(signal) ==
    IF Len(signal) = 0 THEN -120 ELSE ToDb(Percentile20(AbsSeq(signal)))

\* np.mean(np.abs(work) >= 0.999), in millionths
ClippingRatio(work) ==
    (Cardinality({i \in 1..Len(work) : Abs(work[i]) >= 999}) * 1000000)
        \div Len(work)

(***************************************************************************)
(* DC removal and the one-pole high-pass filter.                            *)
(***************************************************************************)
apply_dc_removal(signal) ==
    LET dc == RoundDiv(SeqSum(signal), Len(signal))
    IN  Ret([i \in 1..Len(signal) |-> signal[i] - dc],
            [dc_offset_removed |-> dc])

\* alpha = rc / (rc + dt) = sample_rate / (sample_rate + 2 pi cutoff), in
\* ten-thousandths; 2 pi is 6283 thousandths
HpfAlpha(cutoff_hz, sample_rate) ==
    (100000 * sample_rate)
        \div (10 * sample_rate + (6283 * cutoff_hz) \div 100)

\* a variant of the filter loop that scales the first sample as well
HpfRun_from_first(signal, alpha, i, out) ==
    [k \in 1..Len(signal) |->
        MulDiv(alpha, signal[k] - (IF k = 1 THEN 0 ELSE signal[k - 1]), 10000)]

\* output[i] = alpha * (output[i - 1] + signal[i] - signal[i - 1]), for the
\* samples from i on, out holding output[1 .. i - 1]
RECURSIVE HpfRun(_, _, _, _)
HpfRun(signal, alpha, i, out) ==
    IF i > Len(signal) THEN out
    ELSE HpfRun(signal, alpha, i + 1,
                Append(out, MulDiv(alpha,
                                   out[i - 1] + signal[i] - signal[i - 1],
                                   10000)))

apply_high_pass_filter(signal, cutoff_hz, sample_rate) ==
    IF Len(signal) < 2 \/ cutoff_hz <= 0
    THEN Ret(signal, [hpf_enabled |-> FALSE])
    ELSE LET alpha == HpfAlpha(cutoff_hz, sample_rate)
         IN  Ret(HpfRun(signal, alpha, 2, <<signal[1]>>),
                 [hpf_enabled |-> TRUE, hpf_cutoff_hz |-> cutoff_hz,
                  hpf_alpha |-> alpha])

(***************************************************************************)
(* Noise suppression.  The optional modules are the module-level names      *)
(* pyln, WebRTCAudioProcessingModule, rnnoise, deepfilternet and speexdsp:  *)
(* avail is the set of those that imported.  The WebRTC module is external: *)
(* apm describes what one instance does during the stage,                   *)
(*   apm.init_ok  whether construction and configuration succeed,           *)
(*   apm.fail_at  the frame (from 0) whose process_stream call raises, -1   *)
(*                for none,                                                 *)
(*   apm.effect   what process_stream returns for a frame.                  *)
(***************************************************************************)
Modules == {"pyloudnorm", "webrtc_apm", "rnnoise", "deepfilternet", "speexdsp"}

\* "half": every sample at half its value; "short": one sample fewer than
\* it was given
ApmEffects == {"half", "short"}

map_ns_level(cfg) ==
    CASE cfg.noise_suppression_level = "low" -> 0
      [] cfg.noise_suppression_level = "moderate" -> 1
      [] cfg.noise_suppression_level = "high" -> 2
      [] cfg.noise_suppression_level = "veryhigh" -> 3
      [] OTHER -> 1

map_agc_params(cfg) ==
    IF cfg.mode = "high_quality" THEN <<18, 68>> ELSE <<20, 58>>

\* max(1, int(round(sample_rate * 0.01)))
FrameSize(sample_rate) == Max(1, RoundHalfEven(sample_rate, 100))

\* the number of iterations of range(0, signal.size, frame_size)
FrameCount(n, frame_size) == (n + frame_size - 1) \div frame_size

\* a variant that leaves a partial last frame short
PaddedFrame_unpadded(signal, frame_size, j) ==
    [i \in 1..Min(frame_size, Len(signal) - j * frame_size) |->
        signal[j * frame_size + i]]

\* frame j (from 0) of the signal, np.pad-ded with zeros to frame_size
PaddedFrame(signal, frame_size, j) ==
    [i \in 1..frame_size |->
        IF j * frame_size + i <= Len(signal)
        THEN signal[j * frame_size + i] ELSE 0]

\* np.round(np.clip(signal, -1, 1) * 32767.0).astype(np.int16)
float_to_pcm16(signal) ==
    [i \in 1..Len(signal) |->
        LET c == clamp(signal[i], -1000, 1000)
        IN  IF c >= 0 THEN RoundHalfEven(c * 32767, 1000)
            ELSE -RoundHalfEven((-c) * 32767, 1000)]

\* what the external module returns for one frame of PCM samples
ProcessStream(effect, payload) ==
    CASE effect = "half" ->
            [i \in 1..Len(payload) |->
                IF payload[i] >= 0 THEN payload[i] \div 2
                ELSE -((-payload[i]) \div 2)]
      [] OTHER -> SubSeq(payload, 1, Len(payload) - 1)

\* np.frombuffer(out_payload, int16).astype(float32) / 32768.0, padded with
\* zeros to frame_size when the module returned fewer samples
PcmToFloat(out_payload, frame_size) ==
    [i \in 1..Max(frame_size, Len(out_payload)) |->
        IF i <= Len(out_payload)
        THEN RoundDiv(out_payload[i] * 1000, 32768) ELSE 0]

OutFrame(signal, frame_size, effect, j) ==
    PcmToFloat(ProcessStream(effect,
                             float_to_pcm16(PaddedFrame(signal, frame_size, j))),
               frame_size)

\* the samples written to processed by the frames 0 .. frames - 1:
\* processed[start:end] = out_frame[: end - start]
ProcessedPrefix(signal, frame_size, effect, frames) ==
    [i \in 1..Min(frames * frame_size, Len(signal)) |->
        OutFrame(signal, frame_size, effect,
                 (i - 1) \div frame_size)[((i - 1) % frame_size) + 1]]

\* the payloads handed to process_stream by the frames 0 .. frames - 1
SubmittedFrames(signal, frame_size, frames) ==
    [j \in 1..frames |->
        float_to_pcm16(PaddedFrame(signal, frame_size, j - 1))]

NsRet(sig, st, sub) ==
    [signal |-> sig, stats |-> st, raised |-> FALSE, submitted |-> sub]

\* variants of the two error returns: one that reports nothing, one that
\* keeps what the loop had written so far
ns_init_failed_silent(signal) ==
    [signal |-> signal, stats |-> EmptyDict]

ns_process_failed_committing(signal, committed) ==
    [signal |-> committed \o SubSeq(signal, Len(committed) + 1, Len(signal)),
     stats |-> [ns_backend |-> "error", ns_error |-> "process_failed"]]

\* except Exception as exc: return signal, {"ns_backend": "error", ...};
\* committed is what the loop had written to processed so far
ns_init_failed(signal) ==
    [signal |-> signal,
     stats |-> [ns_backend |-> "error", ns_error |-> "init_failed"]]

ns_process_failed(signal, committed) ==
    [signal |-> signal,
     stats |-> [ns_backend |-> "error", ns_error |-> "process_failed"]]

\* a variant without the fallback chain
ResolveEngine_as_requested(requested, avail) == requested

\* the requested engine after the fallback chain of lines 193-210: an
\* engine whose own module is missing becomes webrtc
ResolveEngine(requested, avail) ==
    CASE requested = "rnnoise" /\ "rnnoise" \notin avail -> "webrtc"
      [] requested = "deepfilternet" /\ "deepfilternet" \notin avail -> "webrtc"
      [] requested = "speex" /\ "speexdsp" \notin avail -> "webrtc"
      [] OTHER -> requested

apply_noise_suppression(cfg, avail, signal, sample_rate, apm) ==
    LET requested  == ResolveEngine(cfg.ns_engine, avail)
        frame_size == FrameSize(sample_rate)
        frames     == FrameCount(Len(signal), frame_size)
        ns_level   == map_ns_level(cfg)
        agc        == map_agc_params(cfg)
    IN  IF cfg.ns_engine = "off"
        THEN NsRet(signal, [ns_backend |-> "off"], <<>>)
        ELSE IF requested \in {"rnnoise", "deepfilternet", "speex"}
        THEN NsRet(signal, [ns_backend |-> requested \o "_passthrough"], <<>>)
        ELSE IF requested # "webrtc"
        THEN NsRet(signal, [ns_backend |-> "off"], <<>>)
        ELSE IF "webrtc_apm" \notin avail
        THEN NsRet(signal, [ns_backend |-> "unavailable"], <<>>)
        ELSE IF Len(signal) < frame_size
        THEN NsRet(signal,
                   [ns_backend |-> "webrtc_apm", ns_frames_processed |-> 0],
                   <<>>)
        ELSE IF ~apm.init_ok
        THEN LET r == ns_init_failed(signal)
             IN  NsRet(r.signal, r.stats, <<>>)
        ELSE IF apm.fail_at \in 0..(frames - 1)
        THEN LET r == ns_process_failed(
                          signal,
                          ProcessedPrefix(signal, frame_size, apm.effect,
                                          apm.fail_at))
             IN  NsRet(r.signal, r.stats,
                       SubmittedFrames(signal, frame_size, apm.fail_at + 1))
        ELSE NsRet(ProcessedPrefix(signal, frame_size, apm.effect, frames),
                   [ns_backend |-> "webrtc_apm",
                    ns_frames_processed |-> frames,
                    ns_level |-> ns_level,
                    agc_target |-> agc[1],
                    agc_level |-> agc[2]],
                   SubmittedFrames(signal, frame_size, frames))

(***************************************************************************)
(* Loudness normalization.                                                  *)
(***************************************************************************)
\* a usable mask: given, and as long as the signal
\* a variant that takes any mask at least as long as the signal
MaskFits_at_least(speech_mask, signal) ==
    speech_mask # None /\ Len(speech_mask[1]) >= Len(signal)

\* speech_mask is not None and speech_mask.size == signal.size
MaskFits(speech_mask, signal) ==
    speech_mask # None /\ Len(speech_mask[1]) = Len(signal)

ScaleSignal(signal, gain_linear) ==
    [i \in 1..Len(signal) |-> MulDiv(signal[i], gain_linear, 1000)]

RmsTargetDb(mode) ==
    CASE mode = "fast_dsp" -> -24
      [] mode = "high_quality" -> -22
      [] mode = "custom" -> -24
      [] OTHER -> -24

\* a variant of the RMS gain that may attenuate
rms_gain_db_attenuating(target_db, measured, max_gain_db) ==
    clamp(target_db - measured, -12, max_gain_db)

rms_gain_db(target_db, measured, max_gain_db) ==
    clamp(target_db - measured, 0, max_gain_db)

apply_rms_target(cfg, signal) ==
    LET target_db == RmsTargetDb(cfg.mode)
        measured  == estimate_rms_dbfs(signal)
        gain_db   == rms_gain_db(target_db, measured, cfg.targets.max_gain_db)
    IN  Ret(ScaleSignal(signal, DbToLinear(gain_db)),
            [loudness_backend |-> "rms_target",
             applied_gain_db |-> gain_db,
             target_rms_dbfs |-> target_db])

\* fallback, fallback_stats = self._apply_rms_target(signal);
\* fallback_stats["lufs_backend"] = tag
RmsFallback(cfg, signal, tag) ==
    LET fb == apply_rms_target(cfg, signal)
    IN  Ret(fb.signal, DictUpdate(fb.stats, [lufs_backend |-> tag]))

\* max(256, sample_rate // 10)
LufsMinMeasure(sample_rate) == Max(LufsMinSamples, sample_rate \div 10)

lufs_gain_db(target, measured_lufs, max_gain_db) ==
    clamp(target - measured_lufs, -12, max_gain_db)

\* meter = pyln.Meter(sample_rate), line 295, outside any try
MeterConstruction(meter, otherwise) ==
    IF meter.ctor_ok THEN otherwise ELSE Raise

(***************************************************************************)
(* The loudness meter is external: meter describes one use of it,          *)
(*   meter.ctor_ok     whether pyln.Meter(sample_rate) returns,            *)
(*   meter.measure_ok  whether integrated_loudness returns,                 *)
(*   meter.lufs        the loudness it returns, in dB.                      *)
(***************************************************************************)
apply_lufs_normalization(cfg, avail, signal, sample_rate, speech_mask, meter) ==
    IF "pyloudnorm" \notin avail
    THEN RmsFallback(cfg, signal, "fallback_rms")
    ELSE MeterConstruction(meter,
        LET measure == IF MaskFits(speech_mask, signal)
                          /\ AnyTrue(speech_mask[1])
                       THEN SelectWhere(signal, speech_mask[1])
                       ELSE signal
        IN  IF Len(measure) < LufsMinMeasure(sample_rate)
            THEN RmsFallback(cfg, signal, "fallback_rms_short_input")
            ELSE IF ~meter.measure_ok
            THEN RmsFallback(cfg, signal, "fallback_rms_error")
            ELSE LET target  == cfg.targets.lufs_target
                     gain_db == lufs_gain_db(target, meter.lufs,
                                             cfg.targets.max_gain_db)
                 IN  Ret(ScaleSignal(signal, DbToLinear(gain_db)),
                         [lufs_backend |-> "pyloudnorm",
                          speech_lufs |-> meter.lufs,
                          target_lufs |-> target,
                          applied_gain_db |-> gain_db]))

\* np.exp(-(xs ** 2) / (2 sigma ** 2)) in ten-thousandths, for the two
\* windows the engine uses (length 13, sigma 13/6; length 31, sigma 31/6)
GaussKernel(length) ==
    IF length = 13
    THEN <<216, 698, 1819, 3834, 6531, 8990, 10000, 8990, 6531, 3834, 1819,
           698, 216>>
    ELSE <<148, 254, 422, 674, 1037, 1537, 2193, 3016, 3994, 5095, 6261,
           7410, 8449, 9278, 9814, 10000, 9814, 9278, 8449, 7410, 6261,
           5095, 3994, 3016, 2193, 1537, 1037, 674, 422, 254, 148>>

\* np.pad(values, (half, half), mode="edge")[k], k from 1
EdgePadded(values, half, k) ==
    values[clamp(k - half, 1, Len(values))]

smooth_curve(values, window) ==
    IF Len(values) <= 1 THEN values
    ELSE LET length == Max(3, IF window % 2 = 0 THEN window + 1 ELSE window)
             half   == length \div 2
             kernel == GaussKernel(length)
             total  == SeqSum(kernel)
         IN  [i \in 1..Len(values) |->
                RoundDiv(SeqSum([j \in 1..length |->
                            kernel[j] * EdgePadded(values, half, i + j - 1)]),
                         total)]

DynFrameLenMs(mode) == IF mode = "high_quality" THEN 500 ELSE 250

DynSmoothWindow(mode) == IF mode = "high_quality" THEN 31 ELSE 13

\* max(1, int(round(sample_rate * (frame_len_ms / 1000.0))))
DynFrameLen(mode, sample_rate) ==
    Max(1, RoundHalfEven(sample_rate * DynFrameLenMs(mode), 1000))

\* the desired gain of one frame (lines 346-353); peak_target is 0.95
FrameGain(frame, gate_db, max_gain_linear) ==
    LET rms_db == estimate_rms_dbfs(frame)
        peak   == SeqMax(AbsSeq(frame))
    IN  IF rms_db < gate_db THEN 1000
        ELSE clamp(RoundDiv(950 * 1000, Max(peak, 1)), 1000, max_gain_linear)

\* a variant that leaves the gain on the non-speech samples
RestoreNonSpeech_absent(out, signal, speech_mask) == out

\* out[~speech_mask] = signal[~speech_mask] when the mask fits
RestoreNonSpeech(out, signal, speech_mask) ==
    IF MaskFits(speech_mask, out)
    THEN [i \in 1..Len(out) |->
            IF speech_mask[1][i] THEN out[i] ELSE signal[i]]
    ELSE out

\* frame_gains, lines 341-354
DynFrameGains(signal, frame_len, max_gain_linear) ==
    The({[f \in 1..FrameCount(Len(signal), frame_len) |->
            FrameGain(SubSeq(signal, (f - 1) * frame_len + 1,
                             Min(Len(signal), f * frame_len)),
                      gate_db, max_gain_linear)] :
         gate_db \in {estimate_noise_floor_db(signal) + 8}})

\* out[start:end] = signal[start:end] * float(smoothed[idx]), lines 364-367
DynApplyGains(signal, smoothed, frame_len) ==
    [i \in 1..Len(signal) |->
        MulDiv(signal[i], smoothed[((i - 1) \div frame_len) + 1], 1000)]

apply_dynaudnorm_like(cfg, signal, sample_rate, speech_mask) ==
    LET frame_len == DynFrameLen(cfg.mode, sample_rate)
        max_gain  == Min(cfg.targets.max_gain_db, 10)
        gate_db   == estimate_noise_floor_db(signal) + 8
    IN  IF FrameCount(Len(signal), frame_len) = 0
        THEN Ret(signal, [loudness_backend |-> "dynaudnorm_like",
                          applied_gain_db |-> 0,
                          noise_gate_db |-> gate_db])
        ELSE The({
            Ret(RestoreNonSpeech(DynApplyGains(signal, smoothed, frame_len),
                                 signal, speech_mask),
                [loudness_backend |-> "dynaudnorm_like",
                 applied_gain_db |->
                     ToDb(RoundDiv(SeqSum(smoothed), Len(smoothed))),
                 noise_gate_db |-> gate_db,
                 dyn_peak_target |-> 950,
                 dyn_max_gain_db |-> max_gain,
                 dyn_frame_len_ms |-> DynFrameLenMs(cfg.mode),
                 dyn_gauss_window |-> DynSmoothWindow(cfg.mode)]) :
            smoothed \in {The({smooth_curve(fg, DynSmoothWindow(cfg.mode)) :
                fg \in {DynFrameGains(signal, frame_len,
                                      DbToLinear(max_gain))}})}})

apply_loudness_stage(cfg, avail, signal, sample_rate, speech_mask, meter) ==
    IF cfg.loudness_strategy = "lufs"
    THEN apply_lufs_normalization(cfg, avail, signal, sample_rate,
                                  speech_mask, meter)
    ELSE IF cfg.loudness_strategy = "dynaudnorm"
    THEN apply_dynaudnorm_like(cfg, signal, sample_rate, speech_mask)
    ELSE apply_rms_target(cfg, signal)

(***************************************************************************)
(* Limiter.  Both recursive stages assume 16 kHz: a time of ms milliseconds *)
(* is 16 * ms samples.                                                      *)
(***************************************************************************)
\* math.exp(-1.0 / max(1.0, (ms / 1000.0) * 16000.0)), ms in tenths
SmoothingCoef(ms10) == ExpNegInv(Max(10, 16 * ms10))

\* _clamp(float(override if override is not None else cfg.threshold),
\*        0.6, 0.999)
LimiterThreshold(limiter_cfg, threshold_override) ==
    clamp(IF threshold_override # None THEN threshold_override[1]
          ELSE limiter_cfg.threshold,
          600, 999)

\* a variant of the iteration with the two coefficients exchanged
LimiterGainStep_exchanged(gain, sample, threshold, attack, release) ==
    LET abs_sample  == Abs(sample)
        target_gain == IF abs_sample <= threshold THEN 1000
                       ELSE RoundDiv(threshold * 1000, Max(abs_sample, 1))
        coef        == IF target_gain < gain THEN release ELSE attack
    IN  RoundDiv(coef * gain + (10000 - coef) * target_gain, 10000)

\* one iteration of the loop of lines 485-491: the gain after the sample
LimiterGainStep(gain, sample, threshold, attack, release) ==
    LET abs_sample  == Abs(sample)
        target_gain == IF abs_sample <= threshold THEN 1000
                       ELSE RoundDiv(threshold * 1000, Max(abs_sample, 1))
        coef        == IF target_gain < gain THEN attack ELSE release
    IN  RoundDiv(coef * gain + (10000 - coef) * target_gain, 10000)

\* gains[1 .. Len(signal)], starting from gain
RECURSIVE LimiterGains(_, _, _, _, _)
LimiterGains(signal, gain, threshold, attack, release) ==
    IF signal = <<>> THEN <<>>
    ELSE LET g == LimiterGainStep(gain, Head(signal), threshold, attack,
                                  release)
         IN  <<g>> \o LimiterGains(Tail(signal), g, threshold, attack,
                                   release)

\* a variant of the limiter's last step without the clamp
limiter_clip_absent(out) == out

\* out = np.clip(out, -1.0, 1.0), line 493
limiter_clip(out) == ClipUnit(out)

apply_limiter(cfg, signal, force_enable, threshold_override) ==
    LET limiter_cfg == cfg.limiter
        enabled     == force_enable \/ limiter_cfg.enabled
        threshold   == LimiterThreshold(limiter_cfg, threshold_override)
        attack_ms   == Max(1, limiter_cfg.attack_ms)
        release_ms  == Max(10, limiter_cfg.release_ms)
    IN  IF ~enabled
        THEN Ret(signal, [limiter_enabled |-> FALSE,
                          limiter_reduction_db |-> 0])
        ELSE The({
            Ret(limiter_clip([i \in 1..Len(signal) |->
                                 MulDiv(signal[i], gains[i], 1000)]),
                [limiter_enabled |-> TRUE,
                 limiter_threshold |-> threshold,
                 limiter_reduction_db |-> -ToDb(SeqMin(gains)),
                 limiter_attack_ms |-> attack_ms,
                 limiter_release_ms |-> release_ms]) :
            gains \in {LimiterGains(signal, 1000, threshold,
                                    SmoothingCoef(attack_ms),
                                    SmoothingCoef(release_ms))}})

(***************************************************************************)
(* Dynamics.                                                                *)
(***************************************************************************)
\* one iteration of the envelope follower (lines 436-438); the envelope and
\* the level are in hundred-thousandths, the unit of the 1e-5 floor
EnvelopeStep(env, sample, attack, release) ==
    LET level == Abs(sample) * 100
        coef  == IF level > env THEN attack ELSE release
    IN  RoundDiv(coef * env + (10000 - coef) * level, 10000)

\* a variant of the gain computation without the final clamp
CompressorGain_unclamped(env, max_gain) ==
    IF env < 12500
    THEN RoundDiv(5 * Isqrt((12500 * 160000) \div Max(env, 1)), 2)
    ELSE 1000

\* the gain for an envelope (lines 439-443): threshold 0.125, ratio 2.0, so
\* (threshold / max(env, 1e-5)) ** 0.5 below the threshold
CompressorGain(env, max_gain) ==
    clamp(IF env < 12500
          THEN RoundDiv(5 * Isqrt((12500 * 160000) \div Max(env, 1)), 2)
          ELSE 1000,
          1000, max_gain)

\* gain_trace[1 .. Len(signal)], the envelope starting from env
RECURSIVE CompressorGains(_, _, _, _, _)
CompressorGains(signal, env, attack, release, max_gain) ==
    IF signal = <<>> THEN <<>>
    ELSE LET e == EnvelopeStep(env, Head(signal), attack, release)
         IN  <<CompressorGain(e, max_gain)>>
             \o CompressorGains(Tail(signal), e, attack, release, max_gain)

apply_upward_compressor(cfg, signal) ==
    The({
        Ret([i \in 1..Len(signal) |-> MulDiv(signal[i], gain_trace[i], 1000)],
            [upward_comp_avg_gain_db |->
                 ToDb(RoundDiv(SeqSum(gain_trace), Len(gain_trace))),
             upward_comp_peak_gain_db |-> ToDb(SeqMax(gain_trace)),
             upward_comp_threshold |-> 125,
             upward_comp_ratio |-> 2]) :
        gain_trace \in {CompressorGains(
                            signal, 0, SmoothingCoef(200), SmoothingCoef(2500),
                            DbToLinear(Min(cfg.targets.max_gain_db, 18)))}})

\* variants of the chained limiter: the configured threshold uncapped, and
\* the limiter's diagnostics merged under their own names
DynLimiterOverride_uncapped(cfg) == Some(cfg.limiter.threshold)

MergeDynStats_unprefixed(comp_stats, limiter_stats) ==
    DictUpdate(comp_stats, limiter_stats)

\* min(self.config.limiter.threshold, 0.99), line 413
DynLimiterOverride(cfg) == Some(Min(cfg.limiter.threshold, 990))

\* merged = dict(comp_stats); merged.update({f"dyn_{key}": ...})
MergeDynStats(comp_stats, limiter_stats) ==
    DictUpdate(comp_stats, DynPrefixed(limiter_stats))

\* the limiter chained after the compressor, lines 410-418
DynCompLimiter(cfg, comp) ==
    The({Ret(lim.signal,
             DictUpdate(MergeDynStats(comp.stats, lim.stats),
                        [dynamics_backend |-> "comp_limiter"])) :
         lim \in {apply_limiter(cfg, comp.signal, TRUE,
                                DynLimiterOverride(cfg))}})

apply_dynamics_stage(cfg, signal) ==
    IF cfg.dynamics = "off"
    THEN Ret(signal, [dynamics_backend |-> "off"])
    ELSE The({IF cfg.dynamics = "upward_comp"
              THEN Ret(comp.signal,
                       DictUpdate(comp.stats,
                                  [dynamics_backend |-> "upward_comp"]))
              ELSE DynCompLimiter(cfg, comp) :
              comp \in {apply_upward_compressor(cfg, signal)}})

(***************************************************************************)
(* The engine as a state machine.                                           *)
(*                                                                          *)
(*   config, avail   the engine's configuration and the optional modules    *)
(*                   that imported: fixed at construction / import          *)
(*   pc              where the current call of process stands               *)
(*   signal, sample_rate, speech_mask   the arguments of the call           *)
(*   work, stats     the locals of process                                  *)
(*   stage_in        the signal the last stage received                     *)
(*   stage_stats     the diagnostics the last stage returned                *)
(*   trace           the stages run so far in this call, in order           *)
(*   apm, meter      what the external modules did in this call             *)
(*   submitted       the payloads handed to process_stream in this call     *)
(*   loop            the locals of a sample-by-sample loop when the         *)
(*                   compressor or the limiter is followed step by step     *)
(*   wav             a WAV file handed to load_wav_pcm16_mono and what the  *)
(*                   loader did with it                                     *)
(*   host            the native-messaging host process: where it is, the    *)
(*                   messages read, the responses sent, the inbox file      *)
(***************************************************************************)
VARIABLES config, avail, pc, signal, sample_rate, speech_mask, work, stats,
          stage_in, stage_stats, trace, apm, meter, submitted, loop, wav, host

vars == <<config, avail, pc, signal, sample_rate, speech_mask, work, stats,
          stage_in, stage_stats, trace, apm, meter, submitted, loop, wav, host>>

\* the external modules before any use in a call
ApmIdle == [init_ok |-> TRUE, fail_at |-> -1, effect |-> "half"]

MeterIdle == [ctor_ok |-> TRUE, measure_ok |-> TRUE, lufs |-> 0]

\* no native-messaging host running
HostIdle ==
    [pc |-> "off", message |-> <<>>, received |-> <<>>, sent |-> <<>>,
     writes |-> <<>>, inbox |-> <<>>, stop |-> ""]

\* no file being loaded
WavIdle == [file |-> <<>>, raised |-> "", waveform |-> <<>>]

\* no loop running: i samples done, the envelope env, the gain state gain,
\* the gains and outputs written, and per sample the envelope (compressor)
\* or the target gain (limiter) seen
LoopIdle ==
    [i |-> 0, env |-> 0, gain |-> 1000, gains |-> <<>>, out |-> <<>>,
     seen |-> <<>>]

(***************************************************************************)
(* The inputs the model draws from.                                         *)
(***************************************************************************)
\* sample values, in thousandths: beyond full scale, and quiet
SampleValues == {-1500, 20}

SignalsOfLen(n) == [1..n -> SampleValues]

Signals == UNION {SignalsOfLen(n) : n \in 0..MaxLen}

\* 10 Hz: one-sample frames; 200 Hz: two-sample frames
SampleRates == {10, 200}

\* no mask, a mask of the signal's length (speech on the odd positions), a
\* mask one sample too long
MasksFor(n) ==
    {None, Some([i \in 1..n |-> i % 2 = 1]), Some([i \in 1..(n + 1) |-> TRUE])}

\* loudness values the meter may return, in dB
MeterReadings == {-70, -24, 0}

MakeConfig(mode, ns_engine, level, strategy, dynamics, enabled, threshold, max_gain_db, cutoff) ==
    [mode |-> mode,
     ns_engine |-> ns_engine,
     noise_suppression_level |-> level,
     loudness_strategy |-> strategy,
     dynamics |-> dynamics,
     limiter |-> [enabled |-> enabled, threshold |-> threshold,
                  attack_ms |-> 50, release_ms |-> 500],
     targets |-> [lufs_target |-> -18, max_gain_db |-> max_gain_db],
     hpf_cutoff_hz |-> cutoff]

LoudnessStrategies == {"lufs", "dynaudnorm", "rms"}

DynamicsModes == {"off", "upward_comp", "comp_limiter"}

\* the configurations of the whole-pipeline specification
Configs ==
    {MakeConfig("fast_dsp", e, "moderate", l, d, en, 980, g, 80) :
        e \in {"off", "webrtc"}, l \in LoudnessStrategies,
        d \in DynamicsModes, en \in BOOLEAN, g \in {18}}

AvailSets == SUBSET {"pyloudnorm", "webrtc_apm"}

(***************************************************************************)
(* process, one action per stage.                                           *)
(***************************************************************************)
IdleCall ==
    /\ pc = "idle"
    /\ signal = <<>>
    /\ sample_rate = 0
    /\ speech_mask = None
    /\ work = <<>>
    /\ stats = EmptyDict
    /\ stage_in = <<>>
    /\ stage_stats = EmptyDict
    /\ trace = <<>>
    /\ apm = ApmIdle
    /\ meter = MeterIdle
    /\ submitted = <<>>
    /\ loop = LoopIdle
    /\ wav = WavIdle
    /\ host = HostIdle

Init ==
    /\ config \in Configs
    /\ avail \in AvailSets
    /\ IdleCall

\* stats = {"v2_mode": ..., ...}, lines 110-115
InitialStats(cfg) ==
    [v2_mode |-> cfg.mode,
     ns_engine_requested |-> cfg.ns_engine,
     loudness_strategy_requested |-> cfg.loudness_strategy,
     dynamics_requested |-> cfg.dynamics]

\* a variant of the empty-input return that also reports final metrics
EmptyInputStats_with_metrics(cfg) ==
    DictUpdate(InitialStats(cfg),
               [v2_empty_input |-> TRUE, output_rms_dbfs |-> -140,
                output_peak_dbfs |-> -140, clipping_sample_ratio |-> 0])

\* stats["v2_empty_input"] = True, lines 117-119
EmptyInputStats(cfg) ==
    DictUpdate(InitialStats(cfg), [v2_empty_input |-> TRUE])

\* the stage took stage_in' = work and left result r
StageDone(name, r, next) ==
    /\ stage_in' = work
    /\ stage_stats' = r.stats
    /\ work' = r.signal
    /\ stats' = DictUpdate(stats, r.stats)
    /\ trace' = Append(trace, name)
    /\ pc' = next

\* lines 110-121: the call, the empty-input return, the clamp
Process(sig, sr, mask) ==
    /\ pc = "idle"
    /\ signal' = sig
    /\ sample_rate' = sr
    /\ speech_mask' = mask
    /\ stage_in' = sig
    /\ stage_stats' = EmptyDict
    /\ IF Len(sig) = 0
       THEN /\ stats' = EmptyInputStats(config)
            /\ work' = sig
            /\ trace' = trace
            /\ pc' = "done"
       ELSE /\ stats' = InitialStats(config)
            /\ work' = ClipUnit(sig)
            /\ trace' = Append(trace, "clamp")
            /\ pc' = "dc"
    /\ UNCHANGED <<host, wav, loop, config, avail, apm, meter, submitted>>

DcRemoval ==
    /\ pc = "dc"
    /\ \E r \in {apply_dc_removal(work)} : StageDone("dc_removal", r, "hpf")
    /\ UNCHANGED <<host, wav, loop, config, avail, signal, sample_rate, speech_mask, apm,
                   meter, submitted>>

HighPass ==
    /\ pc = "hpf"
    /\ \E r \in {apply_high_pass_filter(work, config.hpf_cutoff_hz,
                                          sample_rate)} :
          StageDone("high_pass", r, "ns")
    /\ UNCHANGED <<host, wav, loop, config, avail, signal, sample_rate, speech_mask, apm,
                   meter, submitted>>

\* whether the stage gets as far as constructing the WebRTC module
NsReachesModule(cfg, av, sig, sr) ==
    /\ ResolveEngine(cfg.ns_engine, av) = "webrtc"
    /\ "webrtc_apm" \in av
    /\ Len(sig) >= FrameSize(sr)

\* what the WebRTC module may do in a stage that handles frames frames
ApmBehaviours(frames) ==
    {[init_ok |-> FALSE, fail_at |-> -1, effect |-> "half"]}
    \cup [init_ok : {TRUE}, fail_at : -1..(frames - 1), effect : ApmEffects]

NoiseSuppression ==
    /\ pc = "ns"
    /\ \E a \in IF NsReachesModule(config, avail, work, sample_rate)
                THEN ApmBehaviours(FrameCount(Len(work),
                                              FrameSize(sample_rate)))
                ELSE {ApmIdle} :
          \E r \in {apply_noise_suppression(config, avail, work,
                                             sample_rate, a)} :
              /\ apm' = a
              /\ submitted' = r.submitted
              /\ StageDone("noise_suppression", r, "noise")
    /\ UNCHANGED <<host, wav, loop, config, avail, signal, sample_rate, speech_mask, meter>>

\* lines 132-137
NoiseEstimate ==
    /\ pc = "noise"
    /\ LET est == IF MaskFits(speech_mask, work)
                     /\ AnyTrue(NotSeq(speech_mask[1]))
                  THEN estimate_rms_dbfs(
                           SelectWhere(work, NotSeq(speech_mask[1])))
                  ELSE estimate_noise_floor_db(work)
       IN  StageDone("noise_estimate",
                     Ret(work, [noise_estimate_db |-> est]), "loudness")
    /\ UNCHANGED <<host, wav, loop, config, avail, signal, sample_rate, speech_mask, apm,
                   meter, submitted>>

\* whether the loudness stage gets as far as constructing the meter
LoudnessReachesMeter(cfg, av) ==
    cfg.loudness_strategy = "lufs" /\ "pyloudnorm" \in av

MeterBehaviours ==
    {[ctor_ok |-> FALSE, measure_ok |-> TRUE, lufs |-> 0],
     [ctor_ok |-> TRUE, measure_ok |-> FALSE, lufs |-> 0]}
    \cup [ctor_ok : {TRUE}, measure_ok : {TRUE}, lufs : MeterReadings]

Loudness ==
    /\ pc = "loudness"
    /\ \E m \in IF LoudnessReachesMeter(config, avail)
                THEN MeterBehaviours ELSE {MeterIdle} :
          \E r \in {apply_loudness_stage(config, avail, work, sample_rate,
                                          speech_mask, m)} :
              /\ meter' = m
              /\ IF r.raised
                 THEN /\ pc' = "raised"
                      /\ stage_in' = work
                      /\ UNCHANGED <<work, stats, stage_stats, trace>>
                 ELSE StageDone("loudness", r, "dynamics")
    /\ UNCHANGED <<host, wav, loop, config, avail, signal, sample_rate, speech_mask, apm,
                   submitted>>

Dynamics ==
    /\ pc = "dynamics"
    /\ \E r \in {apply_dynamics_stage(config, work)} :
          StageDone("dynamics", r, "limiter")
    /\ UNCHANGED <<host, wav, loop, config, avail, signal, sample_rate, speech_mask, apm,
                   meter, submitted>>

Limiter ==
    /\ pc = "limiter"
    /\ \E r \in {apply_limiter(config, work, FALSE, None)} :
          StageDone("limiter", r, "metrics")
    /\ UNCHANGED <<host, wav, loop, config, avail, signal, sample_rate, speech_mask, apm,
                   meter, submitted>>

\* lines 148-151
FinalMetrics ==
    /\ pc = "metrics"
    /\ StageDone("final_metrics",
                 Ret(work, [output_rms_dbfs |-> estimate_rms_dbfs(work),
                            output_peak_dbfs |-> estimate_peak_dbfs(work),
                            clipping_sample_ratio |-> ClippingRatio(work)]),
                 "done")
    /\ UNCHANGED <<host, wav, loop, config, avail, signal, sample_rate, speech_mask, apm,
                   meter, submitted>>

\* a variant of the end of a call in which the engine keeps the report and
\* the signal of the call it just served
Return_keeping_result ==
    /\ pc \in {"done", "raised"}
    /\ pc' = "idle"
    /\ trace' = <<>>
    /\ UNCHANGED <<config, avail, signal, sample_rate, speech_mask, work,
                   stats, stage_in, stage_stats, apm, meter, submitted, loop,
                   wav, host>>

\* the call is over (a result or an exception reached the caller); the
\* engine waits for the next call, holding nothing but its configuration
Return ==
    /\ pc \in {"done", "raised"}
    /\ pc' = "idle"
    /\ signal' = <<>>
    /\ sample_rate' = 0
    /\ speech_mask' = None
    /\ work' = <<>>
    /\ stats' = EmptyDict
    /\ stage_in' = <<>>
    /\ stage_stats' = EmptyDict
    /\ trace' = <<>>
    /\ apm' = ApmIdle
    /\ meter' = MeterIdle
    /\ submitted' = <<>>
    /\ loop' = LoopIdle
    /\ UNCHANGED <<host, wav, config, avail>>

Call ==
    \E sig \in Signals, sr \in SampleRates :
        \E mask \in MasksFor(Len(sig)) : Process(sig, sr, mask)

Next ==
    \/ Call
    \/ DcRemoval
    \/ HighPass
    \/ NoiseSuppression
    \/ NoiseEstimate
    \/ Loudness
    \/ Dynamics
    \/ Limiter
    \/ FinalMetrics
    \/ Return

Spec == Init /\ [][Next]_vars

(***************************************************************************)
(* Properties of process (specification Spec).                              *)
(***************************************************************************)
WithinUnit(sig) == \A i \in 1..Len(sig) : sig[i] >= -1000 /\ sig[i] <= 1000

\* C1, as claimed: for every configuration, whatever limiter.enabled is,
\* every sample of the signal process returns lies within [-1, 1].
C1_ReturnedWithinUnit ==
    pc = "done" => WithinUnit(work)

\* C1, amended: when the final limiter is enabled (limiter.enabled is true),
\* every sample of the signal process returns lies within [-1, 1].
C1_ReturnedWithinUnitWhenLimiterEnabled ==
    (pc = "done" /\ config.limiter.enabled) => WithinUnit(work)

\* C1, witness: a call returned after the enabled final limiter reduced a
\* signal and the final clamp left a sample at full scale.
C1_Witness ==
    /\ pc = "done"
    /\ config.limiter.enabled
    /\ Len(work) > 0
    /\ stats.limiter_reduction_db > 0
    /\ \E i \in 1..Len(work) : Abs(work[i]) = 1000

\* C2: process never raises to its caller because of an external module.
C2_NeverRaises ==
    pc # "raised"

\* C4, as claimed: for an empty input the report carries the single entry
\* v2_empty_input = true, the input is returned and no stage has run.
C4_EmptyInputSingleEntry ==
    (pc = "done" /\ Len(signal) = 0) =>
        /\ work = signal
        /\ trace = <<>>
        /\ DOMAIN stats = {"v2_empty_input"}
        /\ stats.v2_empty_input

\* C4, amended: for an empty input the input is returned, no stage has run,
\* and the report holds the four requested-configuration entries written
\* before the check and, besides them, only v2_empty_input = true.
C4_EmptyInputReport ==
    (pc = "done" /\ Len(signal) = 0) =>
        /\ work = signal
        /\ trace = <<>>
        /\ stage_stats = EmptyDict
        /\ DOMAIN stats = {"v2_mode", "ns_engine_requested",
                           "loudness_strategy_requested",
                           "dynamics_requested", "v2_empty_input"}
        /\ stats.v2_empty_input
        /\ stats.v2_mode = config.mode
        /\ stats.ns_engine_requested = config.ns_engine
        /\ stats.loudness_strategy_requested = config.loudness_strategy
        /\ stats.dynamics_requested = config.dynamics

\* C4, witness: a call with an empty signal has returned.
C4_Witness ==
    /\ pc = "done"
    /\ Len(signal) = 0
    /\ "v2_empty_input" \in DOMAIN stats
    /\ speech_mask # None

\* the entry by which a stage names the backend or strategy that ran
StageIdentified(name, st) ==
    CASE name = "clamp" -> TRUE
      [] name = "dc_removal" -> "dc_offset_removed" \in DOMAIN st
      [] name = "high_pass" ->
            "hpf_enabled" \in DOMAIN st /\ st.hpf_enabled \in BOOLEAN
      [] name = "noise_suppression" ->
            /\ "ns_backend" \in DOMAIN st
            /\ st.ns_backend \in {"off", "rnnoise_passthrough",
                                  "deepfilternet_passthrough",
                                  "speex_passthrough", "unavailable",
                                  "webrtc_apm", "error"}
      [] name = "noise_estimate" -> "noise_estimate_db" \in DOMAIN st
      [] name = "loudness" ->
            \/ /\ "loudness_backend" \in DOMAIN st
               /\ st.loudness_backend \in {"rms_target", "dynaudnorm_like"}
            \/ /\ "lufs_backend" \in DOMAIN st
               /\ st.lufs_backend = "pyloudnorm"
      [] name = "dynamics" ->
            /\ "dynamics_backend" \in DOMAIN st
            /\ st.dynamics_backend \in DynamicsModes
      [] name = "limiter" ->
            "limiter_enabled" \in DOMAIN st /\ st.limiter_enabled \in BOOLEAN
      [] name = "final_metrics" -> "output_rms_dbfs" \in DOMAIN st
      [] OTHER -> FALSE

C8_AppendOnly ==
    [][(pc # "idle" /\ Len(trace') > Len(trace)) =>
          /\ DOMAIN stage_stats' \cap DOMAIN stats = {}
          /\ stats' = DictUpdate(stats, stage_stats')
          /\ \A k \in DOMAIN stats :
                k \in DOMAIN stats' /\ stats'[k] = stats[k]]_vars

\* C8, witness: a call returned in which the dynaudnorm-like stage, the
\* limiter inside the dynamics stage and the final limiter all reported.
C8_Witness ==
    /\ pc = "done"
    /\ config.dynamics = "comp_limiter"
    /\ {"dyn_peak_target", "dyn_limiter_enabled", "dyn_limiter_threshold",
        "limiter_enabled", "limiter_threshold", "applied_gain_db"}
           \subseteq DOMAIN stats

\* the stages of a call on a non-empty signal, in order
StageOrder ==
    <<"clamp", "dc_removal", "high_pass", "noise_suppression",
      "noise_estimate", "loudness", "dynamics", "limiter", "final_metrics">>

\* C9: a call on a non-empty signal ends having run every stage once, in
\* the fixed order, with the final output RMS, peak and clipping ratio of
\* the returned signal in the report.
C9_AllStagesAlwaysRun ==
    (pc \in {"done", "raised"} /\ Len(signal) > 0) =>
        /\ trace = StageOrder
        /\ {"output_rms_dbfs", "output_peak_dbfs", "clipping_sample_ratio"}
               \subseteq DOMAIN stats
        /\ stats.output_rms_dbfs = estimate_rms_dbfs(work)
        /\ stats.output_peak_dbfs = estimate_peak_dbfs(work)
        /\ stats.clipping_sample_ratio = ClippingRatio(work)

\* C6: with strategy lufs, the stage falls back to the RMS-target result on
\* the same signal with lufs_backend = fallback_rms when the meter library
\* is missing, fallback_rms_short_input when fewer than
\* max(256, sampleRate/10) samples are to be measured, fallback_rms_error
\* when the meter fails (in construction or in measurement); otherwise the
\* tag is pyloudnorm and the gain is clamp(target - measured, -12, maxGainDb).
C6_LufsFallbacksTagged ==
    (pc \in {"dynamics", "raised"} /\ config.loudness_strategy = "lufs") =>
        LET rms     == apply_rms_target(config, stage_in)
            measure == IF MaskFits(speech_mask, stage_in)
                          /\ AnyTrue(speech_mask[1])
                       THEN SelectWhere(stage_in, speech_mask[1])
                       ELSE stage_in
            short   == Len(measure) < LufsMinMeasure(sample_rate)
            failed  == ~meter.ctor_ok \/ (~short /\ ~meter.measure_ok)
            tag     == IF "pyloudnorm" \notin avail THEN {"fallback_rms"}
                       ELSE IF failed /\ short
                       THEN {"fallback_rms_error", "fallback_rms_short_input"}
                       ELSE IF failed THEN {"fallback_rms_error"}
                       ELSE IF short THEN {"fallback_rms_short_input"}
                       ELSE {"pyloudnorm"}
            gain_db == clamp(config.targets.lufs_target - meter.lufs, -12,
                             config.targets.max_gain_db)
        IN  /\ pc = "dynamics"
            /\ "lufs_backend" \in DOMAIN stage_stats
            /\ stage_stats.lufs_backend \in tag
            /\ IF stage_stats.lufs_backend = "pyloudnorm"
               THEN /\ stage_stats.applied_gain_db = gain_db
                    /\ work = ScaleSignal(stage_in, DbToLinear(gain_db))
               ELSE /\ work = rms.signal
                    /\ \A k \in DOMAIN rms.stats :
                          k \in DOMAIN stage_stats
                          /\ stage_stats[k] = rms.stats[k]

(***************************************************************************)
(* The noise-suppression stage on its own: _apply_noise_suppression called  *)
(* on any signal, for every engine and every set of imported modules.       *)
(***************************************************************************)
StageSampleValues == {-1000, 30, 700}

StageSignals == UNION {[1..n -> StageSampleValues] : n \in 0..MaxLen}

NsEngines == {"off", "rnnoise", "deepfilternet", "speex", "webrtc", "none"}

NsConfigs ==
    {MakeConfig(m, e, "high", "rms", "off", TRUE, 980, 18, 80) :
        m \in {"fast_dsp", "high_quality"}, e \in NsEngines}

NsAvailSets == SUBSET {"rnnoise", "deepfilternet", "speexdsp", "webrtc_apm"}

\* a stage about to run on sig, outside a call of process
StageEntry(at, sig, sr) ==
    /\ pc = at
    /\ signal = sig
    /\ sample_rate = sr
    /\ speech_mask = None
    /\ work = sig
    /\ stats = EmptyDict
    /\ stage_in = <<>>
    /\ stage_stats = EmptyDict
    /\ trace = <<>>
    /\ apm = ApmIdle
    /\ meter = MeterIdle
    /\ submitted = <<>>
    /\ loop = LoopIdle
    /\ wav = WavIdle
    /\ host = HostIdle

InitNS ==
    /\ config \in NsConfigs
    /\ avail \in NsAvailSets
    /\ \E sig \in StageSignals, sr \in SampleRates : StageEntry("ns", sig, sr)

NextNS == NoiseSuppression

SpecNS == InitNS /\ [][NextNS]_vars

PassThroughBackends ==
    {"off", "rnnoise_passthrough", "deepfilternet_passthrough",
     "speex_passthrough", "unavailable"}

\* C3: when the module's initialization fails, or process_stream fails on
\* any frame k, the stage returns exactly the signal it received, with
\* ns_backend = error and an ns_error entry and nothing else.
C3_ErrorReturnsInput ==
    (pc = "noise" /\ (~apm.init_ok \/ apm.fail_at # -1)) =>
        /\ work = stage_in
        /\ DOMAIN stage_stats = {"ns_backend", "ns_error"}
        /\ stage_stats.ns_backend = "error"
        /\ stage_stats.ns_error =
               (IF apm.init_ok THEN "process_failed" ELSE "init_failed")

\* C3, witness: of three one-sample frames the second one failed, after the
\* first had been processed into a sample that differs from the input's.
C3_Witness ==
    /\ pc = "noise"
    /\ apm.init_ok
    /\ apm.fail_at = 1
    /\ Len(stage_in) = 3
    /\ FrameSize(sample_rate) = 1
    /\ Len(submitted) = 2
    /\ ProcessedPrefix(stage_in, 1, apm.effect, 1) # SubSeq(stage_in, 1, 1)
    /\ stage_stats.ns_backend = "error"

\* C5: the backend is a fixed function of the requested engine and of the
\* modules available: off is pass-through with backend off; rnnoise,
\* deepfilternet or speex whose module is missing are handled as webrtc;
\* webrtc, requested or resolved, whose module is missing is pass-through
\* with backend unavailable and no error entry; every pass-through outcome
\* returns the input unchanged.
C5_BackendResolution ==
    pc = "noise" =>
        LET e        == config.ns_engine
            own      == CASE e = "rnnoise" -> "rnnoise"
                          [] e = "deepfilternet" -> "deepfilternet"
                          [] e = "speex" -> "speexdsp"
                          [] OTHER -> "webrtc_apm"
            degraded == e \in {"rnnoise", "deepfilternet", "speex"}
                        /\ own \notin avail
            backend  == stage_stats.ns_backend
        IN  /\ "ns_backend" \in DOMAIN stage_stats
            /\ e = "off" => backend = "off"
            /\ (e = "webrtc" \/ degraded) =>
                  IF "webrtc_apm" \in avail
                  THEN backend \in {"webrtc_apm", "error"}
                  ELSE /\ backend = "unavailable"
                       /\ DOMAIN stage_stats = {"ns_backend"}
            /\ (e \in {"rnnoise", "deepfilternet", "speex"} /\ ~degraded) =>
                  backend = e \o "_passthrough"
            /\ backend \in PassThroughBackends =>
                  /\ work = stage_in
                  /\ submitted = <<>>
                  /\ DOMAIN stage_stats = {"ns_backend"}

\* C5, witness: speex was requested, its module is missing, and the WebRTC
\* module processed the frames.
C5_Witness ==
    /\ pc = "noise"
    /\ config.ns_engine = "speex"
    /\ "speexdsp" \notin avail
    /\ "webrtc_apm" \in avail
    /\ stage_stats.ns_backend = "webrtc_apm"
    /\ stage_stats.ns_frames_processed = 2
    /\ work # stage_in

(***************************************************************************)
(* The dynamics stage on its own: _apply_dynamics_stage called on any       *)
(* signal, for every mode and limiter configuration.                        *)
(***************************************************************************)
DynThresholds == {500, 980, 995}

DynConfigs ==
    {MakeConfig("fast_dsp", "off", "moderate", "rms", d, en, t, g, 80) :
        d \in DynamicsModes, en \in BOOLEAN, t \in DynThresholds,
        g \in {0, 6, 24}}

InitDyn ==
    /\ config \in DynConfigs
    /\ avail = {}
    /\ \E sig \in StageSignals \ {<<>>} : StageEntry("dynamics", sig, 200)

NextDyn == Dynamics

SpecDyn == InitDyn /\ [][NextDyn]_vars

LimiterKeys ==
    {"limiter_enabled", "limiter_threshold", "limiter_reduction_db",
     "limiter_attack_ms", "limiter_release_ms"}

DynLimiterKeys ==
    {"dyn_limiter_enabled", "dyn_limiter_threshold",
     "dyn_limiter_reduction_db", "dyn_limiter_attack_ms",
     "dyn_limiter_release_ms"}

\* what the stage does, given the threshold the chained limiter works at
DynamicsStageDoes(threshold) ==
    LET comp == apply_upward_compressor(config, stage_in)
        lim  == apply_limiter([config EXCEPT !.limiter.enabled = TRUE,
                                             !.limiter.threshold = threshold],
                              comp.signal, FALSE, None)
    IN  /\ stage_stats.dynamics_backend = config.dynamics
        /\ config.dynamics = "off" =>
              /\ work = stage_in
              /\ DOMAIN stage_stats = {"dynamics_backend"}
        /\ config.dynamics = "upward_comp" =>
              /\ work = comp.signal
              /\ DOMAIN stage_stats =
                     DOMAIN comp.stats \cup {"dynamics_backend"}
        /\ config.dynamics = "comp_limiter" =>
              /\ work = lim.signal
              /\ DOMAIN stage_stats = DOMAIN comp.stats \cup DynLimiterKeys
                                          \cup {"dynamics_backend"}
              /\ stage_stats.dyn_limiter_enabled
              /\ stage_stats.dyn_limiter_threshold = threshold
              /\ stage_stats.dyn_limiter_reduction_db =
                     lim.stats.limiter_reduction_db

\* C10, as claimed: off returns the input; upward_comp applies the
\* compressor alone; comp_limiter applies the compressor and then the
\* limiter, forced on, at threshold min(configured threshold, 0.99), and
\* reports the limiter under dyn_ keys.
C10_DynamicsModesMinThreshold ==
    pc = "limiter" => DynamicsStageDoes(Min(config.limiter.threshold, 990))

\* C10, amended: off returns the input; upward_comp applies the compressor
\* alone; comp_limiter applies the compressor and then the limiter, forced
\* on, at threshold min(configured threshold, 0.99) raised to at least 0.6,
\* and reports the limiter under dyn_ keys.
C10_DynamicsModes ==
    pc = "limiter" =>
        DynamicsStageDoes(Max(600, Min(config.limiter.threshold, 990)))

\* C10, witness: comp_limiter ran with the limiter disabled in the
\* configuration and a configured threshold above 0.99, and the chained
\* limiter reduced the signal.
C10_Witness ==
    /\ pc = "limiter"
    /\ config.dynamics = "comp_limiter"
    /\ ~config.limiter.enabled
    /\ config.limiter.threshold = 995
    /\ stage_stats.dyn_limiter_threshold = 990
    /\ stage_stats.dyn_limiter_reduction_db > 0
    /\ work # stage_in

(***************************************************************************)
(* The upward compressor followed sample by sample: the loop of lines       *)
(* 435-445 of _apply_upward_compressor, one action per iteration.           *)
(***************************************************************************)
\* samples in thousandths: silence, quiet, loud, and far beyond full scale
\* (what a large loudness gain hands to the stage)
LoopSampleValues == {0, 30, 700, -50000}

LoopSignals == UNION {[1..n -> LoopSampleValues] : n \in 1..MaxLen}

MaxGainDbs == {0, 6, 18, 24}

CompConfigs ==
    {MakeConfig("fast_dsp", "off", "moderate", "rms", "upward_comp", TRUE, 980, g, 80) : g \in MaxGainDbs}

InitComp ==
    /\ config \in CompConfigs
    /\ avail = {}
    /\ \E sig \in LoopSignals : StageEntry("comp_loop", sig, 200)

\* max_gain = 10.0 ** (min(self.config.targets.max_gain_db, 18.0) / 20.0)
CompMaxGain(cfg) == DbToLinear(Min(cfg.targets.max_gain_db, 18))

\* one iteration: for i, sample in enumerate(signal)
CompStep ==
    /\ pc = "comp_loop"
    /\ loop.i < Len(work)
    /\ \E sample \in {work[loop.i + 1]} :
       \E env \in {EnvelopeStep(loop.env, sample, SmoothingCoef(200),
                                SmoothingCoef(2500))} :
       \E gain \in {CompressorGain(env, CompMaxGain(config))} :
          loop' = [loop EXCEPT !.i = loop.i + 1,
                               !.env = env,
                               !.gains = Append(loop.gains, gain),
                               !.out = Append(loop.out,
                                              MulDiv(sample, gain, 1000)),
                               !.seen = Append(loop.seen, env)]
    /\ UNCHANGED <<host, wav, config, avail, pc, signal, sample_rate, speech_mask,
                   work, stats, stage_in, stage_stats, trace, apm, meter,
                   submitted>>

\* the return of lines 447-456
CompReturn ==
    /\ pc = "comp_loop"
    /\ loop.i = Len(work)
    /\ StageDone("upward_compressor",
                 Ret(loop.out,
                     [upward_comp_avg_gain_db |->
                          ToDb(RoundDiv(SeqSum(loop.gains), Len(loop.gains))),
                      upward_comp_peak_gain_db |-> ToDb(SeqMax(loop.gains)),
                      upward_comp_threshold |-> 125,
                      upward_comp_ratio |-> 2]),
                 "comp_done")
    /\ UNCHANGED <<host, wav, loop, config, avail, signal, sample_rate, speech_mask, apm,
                   meter, submitted>>

NextComp == CompStep \/ CompReturn

SpecComp == InitComp /\ [][NextComp]_vars

\* C11: in the upward compressor the gain applied to each sample is at
\* least 1.0 and at most 10^(min(maxGainDb, 18)/20), and is exactly 1.0
\* whenever the envelope is at or above the threshold 0.125; the samples
\* returned are the input samples times these gains.
C11_CompressorGainBounds ==
    /\ pc = "comp_loop" =>
          \A i \in 1..loop.i :
              /\ loop.gains[i] >= 1000
              /\ loop.gains[i] <= DbToLinear(Min(config.targets.max_gain_db, 18))
              /\ loop.seen[i] >= 12500 => loop.gains[i] = 1000
              /\ loop.out[i] = MulDiv(work[i], loop.gains[i], 1000)
    /\ pc = "comp_done" =>
          /\ work = loop.out
          /\ work = apply_upward_compressor(config, stage_in).signal
          /\ stage_stats = apply_upward_compressor(config, stage_in).stats
          /\ \A i \in 1..Len(work) :
                Abs(work[i]) >= Abs(stage_in[i])

\* C11, witness: a run of the compressor in which one sample got the
\* largest gain allowed (18 dB) and a later one, with the envelope above
\* the threshold, got gain 1.0.
C11_Witness ==
    /\ pc = "comp_done"
    /\ config.targets.max_gain_db = 24
    /\ \E i, j \in 1..Len(loop.gains) :
          /\ i < j
          /\ loop.gains[i] = DbToLinear(18)
          /\ loop.seen[j] >= 12500
          /\ loop.gains[j] = 1000

(***************************************************************************)
(* The loudness stage on its own: _apply_loudness_stage called on any       *)
(* signal, for every strategy, mode, mask and behaviour of the meter.       *)
(***************************************************************************)
\* samples in thousandths: silence, quiet, loud, full scale
LoudSampleValues == {0, 30, 700, -1000}

LoudSignals == UNION {[1..n -> LoudSampleValues] : n \in 0..MaxLen}

\* 2 Hz: one-sample analysis frames; 10 Hz and 200 Hz: longer ones
LoudSampleRates == {2, 10, 200}

LoudConfigs ==
    {MakeConfig(m, "off", "moderate", l, "off", TRUE, 980, g, 80) : m \in {"fast_dsp", "high_quality", "custom"}, l \in LoudnessStrategies, g \in {0, 18}}

\* a stage about to run on sig with the call's mask
StageEntryMasked(at, sig, sr, mask) ==
    /\ pc = at
    /\ signal = sig
    /\ sample_rate = sr
    /\ speech_mask = mask
    /\ work = sig
    /\ stats = EmptyDict
    /\ stage_in = <<>>
    /\ stage_stats = EmptyDict
    /\ trace = <<>>
    /\ apm = ApmIdle
    /\ meter = MeterIdle
    /\ submitted = <<>>
    /\ loop = LoopIdle
    /\ wav = WavIdle
    /\ host = HostIdle

InitLoud ==
    /\ config \in LoudConfigs
    /\ avail \in SUBSET {"pyloudnorm"}
    /\ \E sig \in LoudSignals, sr \in LoudSampleRates :
          \E mask \in MasksFor(Len(sig)) :
              StageEntryMasked("loudness", sig, sr, mask)

NextLoud == Loudness

SpecLoud == InitLoud /\ [][NextLoud]_vars

\* C12: with strategy rms, and in every RMS fallback of lufs, the applied
\* gain in dB is clamp(target - measuredRMS, 0, maxGainDb), with target -24
\* for fast_dsp, -22 for high_quality and -24 otherwise; it is never
\* negative and never above maxGainDb, and no sample is made smaller.
C12_RmsGain ==
    pc = "dynamics" =>
        LET target  == IF config.mode = "high_quality" THEN -22 ELSE -24
            ceiling == config.targets.max_gain_db
            gain_db == Max(0, Min(ceiling,
                                  target - estimate_rms_dbfs(stage_in)))
            rms_ran == \/ config.loudness_strategy = "rms"
                       \/ /\ config.loudness_strategy = "lufs"
                          /\ stage_stats.lufs_backend # "pyloudnorm"
        IN  rms_ran =>
              /\ stage_stats.loudness_backend = "rms_target"
              /\ stage_stats.target_rms_dbfs = target
              /\ stage_stats.applied_gain_db = gain_db
              /\ stage_stats.applied_gain_db >= 0
              /\ stage_stats.applied_gain_db <= ceiling
              /\ work = ScaleSignal(stage_in, DbToLinear(gain_db))
              /\ \A i \in 1..Len(work) : Abs(work[i]) >= Abs(stage_in[i])

\* C12, witness: a short-input fallback of lufs in high_quality mode applied
\* a gain strictly between 0 and the ceiling.
C12_Witness ==
    /\ pc = "dynamics"
    /\ config.loudness_strategy = "lufs"
    /\ config.mode = "high_quality"
    /\ stage_stats.lufs_backend = "fallback_rms_short_input"
    /\ stage_stats.applied_gain_db > 0
    /\ stage_stats.applied_gain_db < config.targets.max_gain_db
    /\ work # stage_in

\* C13: with the dynaudnorm-like strategy and a speech mask of the signal's
\* length, every output sample at a non-speech position is the input sample
\* at that position; the speech positions, and only they, carry the
\* smoothed frame gain (the value an unmasked run gives them).
C13_NonSpeechUntouched ==
    (/\ pc = "dynamics"
     /\ config.loudness_strategy = "dynaudnorm"
     /\ speech_mask # None
     /\ Len(speech_mask[1]) = Len(stage_in)) =>
        \A gained \in {apply_dynaudnorm_like(config, stage_in, sample_rate,
                                              None).signal} :
            /\ Len(work) = Len(stage_in)
            /\ \A i \in 1..Len(work) :
                  IF speech_mask[1][i] THEN work[i] = gained[i]
                  ELSE work[i] = stage_in[i]

\* C13, witness: a masked run in which the smoothed gain would have changed
\* a non-speech sample, which was returned as it came in, while a speech
\* sample was changed.
C13_Witness ==
    /\ pc = "dynamics"
    /\ config.loudness_strategy = "dynaudnorm"
    /\ speech_mask # None
    /\ Len(speech_mask[1]) = Len(stage_in)
    /\ \E gained \in {apply_dynaudnorm_like(config, stage_in, sample_rate,
                                              None).signal} :
       \E i, j \in 1..Len(stage_in) :
          /\ ~speech_mask[1][i]
          /\ gained[i] # stage_in[i]
          /\ work[i] = stage_in[i]
          /\ speech_mask[1][j]
          /\ work[j] # stage_in[j]

(***************************************************************************)
(* process called on silence: all-zero signals, every configuration of     *)
(* Configs, every mask.  The one-second, 16 kHz signal of the scenario is   *)
(* scaled to 1 .. MaxLen samples at the model's sample rates, which still   *)
(* reach the meter (enough samples) and the short-input fallback.           *)
(***************************************************************************)
Silence(n) == [i \in 1..n |-> 0]

IsSilence(sig) == Len(sig) > 0 /\ \A i \in 1..Len(sig) : sig[i] = 0

CallSilence ==
    \E n \in 1..MaxLen, sr \in SampleRates :
        \E mask \in MasksFor(n) : Process(Silence(n), sr, mask)

NextSilence ==
    \/ CallSilence
    \/ DcRemoval
    \/ HighPass
    \/ NoiseSuppression
    \/ NoiseEstimate
    \/ Loudness
    \/ Dynamics
    \/ Limiter
    \/ FinalMetrics
    \/ Return

SpecSilence == Init /\ [][NextSilence]_vars

\* what C14 and its amendment share: the call on silence returned a report
\* that does not flag an empty input, whose loudness gain is within the
\* configured ceiling and whose clipping ratio is 0.
SilenceReport ==
    /\ "v2_empty_input" \in DOMAIN stats => ~stats.v2_empty_input
    /\ stats.applied_gain_db <= config.targets.max_gain_db
    /\ stats.clipping_sample_ratio = 0
    /\ IsSilence(work)

HpfCutoffs == {-5, 0, 80}

HpfConfigs ==
    {MakeConfig("fast_dsp", "off", "moderate", "rms", "off", TRUE, 980, 18, c) : c \in HpfCutoffs}

InitHpf ==
    /\ config \in HpfConfigs
    /\ avail = {}
    /\ \E sig \in StageSignals, sr \in SampleRates : StageEntry("hpf", sig, sr)

NextHpf == HighPass

SpecHpf == InitHpf /\ [][NextHpf]_vars

\* C15: the high-pass stage returns its input unchanged with
\* hpf_enabled = false exactly when the cutoff is <= 0 or the signal has
\* fewer than 2 samples; otherwise it reports hpf_enabled = true and the
\* first output sample is the first input sample.
C15_HighPassBypass ==
    pc = "ns" =>
        LET bypass == config.hpf_cutoff_hz <= 0 \/ Len(stage_in) < 2
        IN  /\ stage_stats.hpf_enabled = ~bypass
            /\ Len(work) = Len(stage_in)
            /\ bypass => /\ work = stage_in
                         /\ DOMAIN stage_stats = {"hpf_enabled"}
            /\ ~bypass => /\ work[1] = stage_in[1]
                          /\ stage_stats.hpf_cutoff_hz = config.hpf_cutoff_hz

\* C15, witness: the filter ran on a signal of several samples, kept the
\* first sample and changed a later one.
C15_Witness ==
    /\ pc = "ns"
    /\ stage_stats.hpf_enabled
    /\ Len(stage_in) = MaxLen
    /\ stage_in[1] # 0
    /\ work[1] = stage_in[1]
    /\ work[2] # stage_in[2]

(***************************************************************************)
(* process as a function of its arguments, the configuration and what the   *)
(* external modules do: the stages of lines 121-151 composed on a fresh     *)
(* engine.                                                                  *)
(***************************************************************************)
\* lines 132-137
NoiseEstimateDb(w, mask) ==
    IF mask # None /\ Len(mask[1]) = Len(w) /\ AnyTrue(NotSeq(mask[1]))
    THEN estimate_rms_dbfs(SelectWhere(w, NotSeq(mask[1])))
    ELSE estimate_noise_floor_db(w)

\* lines 142-151, from the loudness stage's result on
FreshTail(cfg, st, loud) ==
    The({Ret(lim.signal,
             DictUpdate(DictUpdate(DictUpdate(DictUpdate(st, loud.stats),
                                              dyn.stats),
                                   lim.stats),
                        [output_rms_dbfs |-> estimate_rms_dbfs(lim.signal),
                         output_peak_dbfs |-> estimate_peak_dbfs(lim.signal),
                         clipping_sample_ratio |-> ClippingRatio(lim.signal)])) :
         dyn \in {apply_dynamics_stage(cfg, loud.signal)},
         lim \in {apply_limiter(cfg,
                                apply_dynamics_stage(cfg, loud.signal).signal,
                                FALSE, None)}})

\* lines 110-151
FreshProcess(cfg, av, sig, sr, mask, a, m) ==
    IF Len(sig) = 0 THEN Ret(sig, EmptyInputStats(cfg))
    ELSE The({
        IF loud.raised THEN Raise
        ELSE FreshTail(cfg,
                       DictUpdate(DictUpdate(DictUpdate(DictUpdate(
                           InitialStats(cfg), dc.stats), hpf.stats), ns.stats),
                           [noise_estimate_db |->
                                NoiseEstimateDb(ns.signal, mask)]),
                       loud) :
        dc \in {apply_dc_removal(ClipUnit(sig))},
        hpf \in {apply_high_pass_filter(apply_dc_removal(ClipUnit(sig)).signal,
                                        cfg.hpf_cutoff_hz, sr)},
        ns \in {apply_noise_suppression(
                    cfg, av,
                    apply_high_pass_filter(
                        apply_dc_removal(ClipUnit(sig)).signal,
                        cfg.hpf_cutoff_hz, sr).signal,
                    sr, a)},
        loud \in {apply_loudness_stage(
                      cfg, av,
                      apply_noise_suppression(
                          cfg, av,
                          apply_high_pass_filter(
                              apply_dc_removal(ClipUnit(sig)).signal,
                              cfg.hpf_cutoff_hz, sr).signal,
                          sr, a).signal,
                      sr, mask, m)}})

(***************************************************************************)
(* One engine serving call after call: process with the configurations     *)
(* that run both recursive stages.                                          *)
(***************************************************************************)
RepeatConfigs ==
    {MakeConfig("fast_dsp", "webrtc", "moderate", l, d, TRUE, 980, 18, 80) : l \in {"lufs", "dynaudnorm"}, d \in {"upward_comp", "comp_limiter"}}

InitRepeat ==
    /\ config \in RepeatConfigs
    /\ avail \in AvailSets
    /\ IdleCall

SpecRepeat == InitRepeat /\ [][Next]_vars

MaxBytes == 4

ByteValues == {0, 1, 128, 255}

WavFiles ==
    [channels : {1, 2}, sample_width : {1, 2, 3},
     sample_rate : {8000, 16000, 44100},
     raw : UNION {[1..n -> ByteValues] : n \in 0..MaxBytes}]

\* the three checks of lines 27-38, in order
WavFormatCheck(metadata) ==
    IF metadata.channels # 1 THEN "channels"
    ELSE IF metadata.sample_width # 2 THEN "sample_width"
    ELSE IF metadata.sample_rate # 16000 THEN "sample_rate"
    ELSE "ok"

\* np.frombuffer(raw, dtype="<i2"): little-endian signed 16-bit samples
FromBufferI2(raw) ==
    [k \in 1..(Len(raw) \div 2) |->
        LET u == raw[2 * k - 1] + 256 * raw[2 * k]
        IN  IF u >= 32768 THEN u - 65536 ELSE u]

\* np.clip(waveform, -1.0, 1.0), waveform = samples / 32768.0
ClipWaveform(samples) ==
    [k \in 1..Len(samples) |-> Max(-32768, Min(32768, samples[k]))]

load_wav_pcm16_mono(file) ==
    IF WavFormatCheck(file) # "ok"
    THEN [file |-> file, raised |-> "WavFormatError", waveform |-> <<>>]
    ELSE IF Len(file.raw) % 2 # 0
    THEN [file |-> file, raised |-> "ValueError", waveform |-> <<>>]
    ELSE [file |-> file, raised |-> "none",
          waveform |-> ClipWaveform(FromBufferI2(file.raw))]

InitWav ==
    /\ config \in {MakeConfig("fast_dsp", "off", "moderate", "rms", "off", TRUE, 980, 18, 80)}
    /\ avail = {}
    /\ StageEntry("wav_load", <<>>, 0)

LoadWav ==
    /\ pc = "wav_load"
    /\ \E file \in WavFiles : wav' = load_wav_pcm16_mono(file)
    /\ pc' = "wav_done"
    /\ UNCHANGED <<host, loop, config, avail, signal, sample_rate, speech_mask, work,
                   stats, stage_in, stage_stats, trace, apm, meter, submitted>>

\* the caller is done with the result
WavReturn ==
    /\ pc = "wav_done"
    /\ wav' = WavIdle
    /\ pc' = "wav_load"
    /\ UNCHANGED <<host, loop, config, avail, signal, sample_rate, speech_mask, work,
                   stats, stage_in, stage_stats, trace, apm, meter, submitted>>

NextWav == LoadWav \/ WavReturn

SpecWav == InitWav /\ [][NextWav]_vars

WavPassesChecks(file) ==
    file.channels = 1 /\ file.sample_width = 2 /\ file.sample_rate = 16000

\* C17, as claimed: the loader raises WavFormatError for every file whose
\* channel count is not 1, whose sample width is not 2 or whose sample rate
\* is not 16000, and for every file that passes the three checks it returns
\* samples that all lie within [-1, 1].
C17_LoadReturnsForEveryFile ==
    pc = "wav_done" =>
        IF WavPassesChecks(wav.file)
        THEN /\ wav.raised = "none"
             /\ \A k \in 1..Len(wav.waveform) :
                   wav.waveform[k] >= -32768 /\ wav.waveform[k] <= 32768
        ELSE wav.raised = "WavFormatError"

\* C17, what the loader does: it raises WavFormatError for every file whose
\* channel count is not 1, whose sample width is not 2 or whose sample rate
\* is not 16000; for a file that passes the three checks and holds a whole
\* number of 16-bit samples it returns one sample per two bytes, each the
\* signed little-endian value over 32768, all within [-1, 1]; for a file
\* that passes the checks but was cut short inside a sample (an odd number
\* of data bytes) it raises a ValueError that is not a WavFormatError.
C17_LoadWav ==
    pc = "wav_done" =>
        IF ~WavPassesChecks(wav.file)
        THEN wav.raised = "WavFormatError"
        ELSE IF Len(wav.file.raw) % 2 = 1
        THEN wav.raised = "ValueError"
        ELSE /\ wav.raised = "none"
             /\ Len(wav.waveform) * 2 = Len(wav.file.raw)
             /\ \A k \in 1..Len(wav.waveform) :
                   /\ wav.waveform[k] >= -32768
                   /\ wav.waveform[k] <= 32768
                   /\ (wav.waveform[k] - wav.file.raw[2 * k - 1]
                          - 256 * wav.file.raw[2 * k]) \in {0, -65536}

(***************************************************************************)
(* The two mask-aware steps of process in sequence, the noise-floor         *)
(* estimate and the loudness stage, for every mask up to one sample longer  *)
(* than the signal.                                                         *)
(***************************************************************************)
MaskSampleValues == {30, 700, -1000}

MaskSignals == UNION {[1..n -> MaskSampleValues] : n \in 1..MaxLen}

MaskSampleRates == {2, 200}

AllMasks ==
    {None} \cup {Some(m) : m \in UNION {[1..k -> BOOLEAN] : k \in 0..(MaxLen + 1)}}

MaskConfigs ==
    {MakeConfig("fast_dsp", "off", "moderate", l, "off", TRUE, 980, 18, 80) : l \in LoudnessStrategies}

InitMask ==
    /\ config \in MaskConfigs
    /\ avail \in SUBSET {"pyloudnorm"}
    /\ \E sig \in MaskSignals, sr \in MaskSampleRates, mask \in AllMasks :
          StageEntryMasked("noise", sig, sr, mask)

NextMask == NoiseEstimate \/ Loudness

SpecMask == InitMask /\ [][NextMask]_vars

\* C18: a speech mask is used only when it is present and as long as the
\* signal.  With a mask that is absent or of another length the noise-floor
\* estimate is the global one, and the loudness stage ends exactly as it
\* ends without a mask: same samples, same report (whole-signal LUFS
\* measurement, dynaudnorm gain on every sample), and it raises only where
\* the unmasked run raises too.
C18_MaskOnlyWhenFitting ==
    ~(speech_mask # None /\ Len(speech_mask[1]) = Len(signal)) =>
        /\ pc # "noise" =>
              stats.noise_estimate_db = estimate_noise_floor_db(signal)
        /\ pc \in {"dynamics", "raised"} =>
              \A unmasked \in {apply_loudness_stage(config, avail, signal,
                                                    sample_rate, None, meter)} :
                  IF unmasked.raised
                  THEN pc = "raised"
                  ELSE /\ pc = "dynamics"
                       /\ work = unmasked.signal
                       /\ stage_stats = unmasked.stats

\* C18, witness: the dynaudnorm-like stage ran with a mask one sample too
\* short whose first entry marks non-speech, and the first sample was
\* amplified all the same.
C18_Witness ==
    /\ pc = "dynamics"
    /\ config.loudness_strategy = "dynaudnorm"
    /\ speech_mask # None
    /\ Len(speech_mask[1]) = Len(signal) - 1
    /\ Len(speech_mask[1]) >= 1
    /\ ~speech_mask[1][1]
    /\ Abs(work[1]) > Abs(signal[1])
    /\ "noise_estimate_db" \in DOMAIN stats

(***************************************************************************)
(* Framing in the noise-suppression stage, checked on the stage on its own. *)
(***************************************************************************)
\* the WebRTC path was taken and neither the initialization nor any frame
\* failed
NsRanClean ==
    /\ pc = "noise"
    /\ ResolveEngine(config.ns_engine, avail) = "webrtc"
    /\ "webrtc_apm" \in avail
    /\ apm.init_ok
    /\ apm.fail_at = -1
    /\ Len(stage_in) >= 1

\* submitted is the signal cut into count frames of frame_size samples, in
\* order, as 16-bit PCM, the last one filled up with zeros
FramesSubmitted(count, frame_size) ==
    /\ Len(submitted) = count
    /\ \A j \in 1..count :
          /\ Len(submitted[j]) = frame_size
          /\ \A i \in 1..frame_size :
                LET at == (j - 1) * frame_size + i
                IN  submitted[j][i] =
                        IF at <= Len(stage_in)
                        THEN float_to_pcm16(<<stage_in[at]>>)[1] ELSE 0

\* the returned samples are what the module made of the frames, sample by
\* sample, the last frame cut back to the signal's length
FramesReturned(frame_size) ==
    /\ Len(work) = Len(stage_in)
    /\ \A at \in 1..Len(work) :
          LET j   == ((at - 1) \div frame_size) + 1
              i   == ((at - 1) % frame_size) + 1
              out == ProcessStream(apm.effect, submitted[j])
          IN  work[at] = IF i <= Len(out)
                         THEN RoundDiv(out[i] * 1000, 32768) ELSE 0

\* C19, as claimed: with the module available and no error, every non-empty
\* signal of n samples, those shorter than one frame included, is submitted
\* as ceil(n / frameSize) frames of frameSize = max(1, round(sampleRate *
\* 0.01)) samples, in order, the last one zero-padded, and n samples are
\* returned.
C19_EverySignalFramed ==
    NsRanClean =>
        LET frame_size == Max(1, RoundHalfEven(sample_rate, 100))
            n          == Len(stage_in)
        IN  /\ FramesSubmitted((n + frame_size - 1) \div frame_size,
                               frame_size)
            /\ Len(work) = n

\* C19, amended: with the module available and no error, a signal of n >=
\* frameSize samples is submitted as ceil(n / frameSize) frames of frameSize
\* = max(1, round(sampleRate * 0.01)) samples, in order, the last one
\* zero-padded; n samples are returned, the padding discarded, and
\* ns_frames_processed is the number of frames.  A non-empty signal shorter
\* than one frame is not submitted at all: it is returned unchanged with
\* ns_backend = webrtc_apm and ns_frames_processed = 0.
C19_FramingFromOneFrameOn ==
    NsRanClean =>
        LET frame_size == Max(1, RoundHalfEven(sample_rate, 100))
            n          == Len(stage_in)
            count      == (n + frame_size - 1) \div frame_size
        IN  IF n >= frame_size
            THEN /\ FramesSubmitted(count, frame_size)
                 /\ FramesReturned(frame_size)
                 /\ stage_stats.ns_backend = "webrtc_apm"
                 /\ stage_stats.ns_frames_processed = count
            ELSE /\ submitted = <<>>
                 /\ work = stage_in
                 /\ stage_stats = [ns_backend |-> "webrtc_apm",
                                   ns_frames_processed |-> 0]

\* C19, witness: three samples at two samples per frame went out as two
\* frames, the second one padded with a zero, and three processed samples
\* came back.
C19_Witness ==
    /\ NsRanClean
    /\ sample_rate = 200
    /\ Len(stage_in) = 3
    /\ Len(submitted) = 2
    /\ Len(submitted[2]) = 2
    /\ submitted[2][1] # 0
    /\ submitted[2][2] = 0
    /\ Len(work) = 3
    /\ work # stage_in

(***************************************************************************)
(* The enabled limiter followed sample by sample: the loop of lines         *)
(* 485-491 of _apply_limiter, one action per iteration.                     *)
(***************************************************************************)
\* thresholds below, inside and above the range 0.6 .. 0.999 they are
\* clamped to
LimThresholds == {500, 980, 1200}

\* attack and release times in tenths of a millisecond; 0 and 5 are below
\* the floors of 0.1 ms and 1.0 ms
LimAttacks == {0, 50}

LimReleases == {5, 500}

LimConfigs ==
    {[MakeConfig("fast_dsp", "off", "moderate", "rms", "off", TRUE, t, 18, 80) EXCEPT !.limiter.attack_ms = a, !.limiter.release_ms = r] : t \in LimThresholds, a \in LimAttacks, r \in LimReleases}

InitLim ==
    /\ config \in LimConfigs
    /\ avail = {}
    /\ \E sig \in LoopSignals : StageEntry("lim_loop", sig, 200)

\* attack, release (lines 474-479)
LimAttackCoef(cfg) == SmoothingCoef(Max(1, cfg.limiter.attack_ms))

LimReleaseCoef(cfg) == SmoothingCoef(Max(10, cfg.limiter.release_ms))

\* target_gain = 1.0 if abs_sample <= threshold
\*               else threshold / max(abs_sample, 1e-6)
LimiterTargetGain(sample, threshold) ==
    IF Abs(sample) <= threshold THEN 1000
    ELSE RoundDiv(threshold * 1000, Max(Abs(sample), 1))

\* one iteration: for i, sample in enumerate(signal)
LimStep ==
    /\ pc = "lim_loop"
    /\ loop.i < Len(work)
    /\ \E sample \in {work[loop.i + 1]},
          threshold \in {LimiterThreshold(config.limiter, None)} :
       \E gain \in {LimiterGainStep(loop.gain, sample, threshold,
                                    LimAttackCoef(config),
                                    LimReleaseCoef(config))} :
          loop' = [loop EXCEPT !.i = loop.i + 1,
                               !.gain = gain,
                               !.gains = Append(loop.gains, gain),
                               !.out = Append(loop.out,
                                              MulDiv(sample, gain, 1000)),
                               !.seen = Append(loop.seen,
                                               LimiterTargetGain(sample,
                                                                 threshold))]
    /\ UNCHANGED <<host, wav, config, avail, pc, signal, sample_rate, speech_mask,
                   work, stats, stage_in, stage_stats, trace, apm, meter,
                   submitted>>

\* the clamp and the return of lines 493-501
LimReturn ==
    /\ pc = "lim_loop"
    /\ loop.i = Len(work)
    /\ StageDone("limiter",
                 Ret(limiter_clip(loop.out),
                     [limiter_enabled |-> TRUE,
                      limiter_threshold |->
                          LimiterThreshold(config.limiter, None),
                      limiter_reduction_db |-> -ToDb(SeqMin(loop.gains)),
                      limiter_attack_ms |-> Max(1, config.limiter.attack_ms),
                      limiter_release_ms |->
                          Max(10, config.limiter.release_ms)]),
                 "lim_done")
    /\ UNCHANGED <<host, wav, loop, config, avail, signal, sample_rate, speech_mask, apm,
                   meter, submitted>>

NextLim == LimStep \/ LimReturn

SpecLim == InitLim /\ [][NextLim]_vars

\* C20: in the enabled limiter the gain state starts at 1 and after every
\* sample lies in (0, 1] and is not below the smallest target gain seen so
\* far; each step moves the gain from its previous value toward the
\* sample's target gain, with the attack coefficient when the target is
\* below the previous gain and with the release coefficient otherwise; no
\* sample is amplified, and the reported limiter_reduction_db is >= 0.
C20_LimiterGainState ==
    /\ pc = "lim_loop" =>
          /\ loop.i = 0 => loop.gain = 1000
          /\ loop.gain > 0 /\ loop.gain <= 1000
          /\ \A i \in 1..loop.i :
                LET prev   == IF i = 1 THEN 1000 ELSE loop.gains[i - 1]
                    target == loop.seen[i]
                    coef   == IF target < prev
                              THEN SmoothingCoef(Max(1, config.limiter.attack_ms))
                              ELSE SmoothingCoef(Max(10, config.limiter.release_ms))
                    limit  == Max(600, Min(999, config.limiter.threshold))
                IN  /\ target = IF Abs(work[i]) <= limit THEN 1000
                                ELSE RoundDiv(limit * 1000, Abs(work[i]))
                    /\ loop.gains[i] > 0 /\ loop.gains[i] <= 1000
                    /\ \E k \in 1..i : loop.gains[i] >= loop.seen[k]
                    /\ loop.gains[i] =
                           RoundDiv(coef * prev + (10000 - coef) * target,
                                    10000)
                    /\ loop.gains[i] >= Min(prev, target)
                    /\ loop.gains[i] <= Max(prev, target)
                    /\ Abs(loop.out[i]) <= Abs(work[i])
          /\ loop.i > 0 => loop.gain = loop.gains[loop.i]
    /\ pc = "lim_done" =>
          /\ \A i \in 1..Len(work) : Abs(work[i]) <= Abs(stage_in[i])
          /\ stage_stats.limiter_reduction_db >= 0
          /\ work = apply_limiter(config, stage_in, FALSE, None).signal
          /\ stage_stats = apply_limiter(config, stage_in, FALSE, None).stats

\* C20, witness: the limiter attacked on a sample far beyond the threshold,
\* released on the next one, and returned a signal with a sample reduced
\* and a positive reduction.
C20_Witness ==
    /\ pc = "lim_done"
    /\ Len(loop.gains) = MaxLen
    /\ loop.seen[1] < 1000
    /\ loop.gains[1] < 1000
    /\ loop.gains[1] > loop.seen[1]
    /\ loop.seen[2] = 1000
    /\ loop.gains[2] > loop.gains[1]
    /\ loop.gains[2] < 1000
    /\ stage_stats.limiter_reduction_db > 0
    /\ \E i \in 1..Len(work) : Abs(work[i]) < Abs(stage_in[i])

(***************************************************************************)
(* scripts/chromium_native_host.py.  Standard input is a stream of frames;  *)
(* what the next read finds is the environment's choice: a complete frame   *)
(* holding a JSON object, a complete frame holding something else, a frame  *)
(* cut short, or the end of the input.  A JSON object is a record of the    *)
(* seven keys the host looks at, Absent standing for a key that is missing  *)
(* or does not hold a string.                                               *)
(***************************************************************************)
MaxFrames == 2

MaxKeys == 2

Absent == "(absent)"

MessageKeys ==
    {"domain", "active_domain", "url", "active_url", "bundleId", "bundle_id",
     "browser"}

KeysPresent(message) == {k \in MessageKeys : message[k] # Absent}

Messages ==
    {m \in [domain : {Absent, "  ", "example.com", "["},
            active_domain : {Absent, "example.net"},
            url : {Absent, "https://Example.org/a", "https:///x"},
            active_url : {Absent, "a]b"},
            bundleId : {Absent, "  ", " com.apple.Safari "},
            bundle_id : {Absent, "org.mozilla.firefox"},
            browser : {Absent, "Edge", "opera"}] :
        Cardinality(KeysPresent(m)) <= MaxKeys}

\* str.strip on the strings above
Strip(value) ==
    CASE value = "  " -> ""
      [] value = " com.apple.Safari " -> "com.apple.Safari"
      [] OTHER -> value

\* "://" in candidate
HasSchemeSeparator(candidate) ==
    candidate \in {"https://Example.org/a", "https:///x"}

\* urllib.parse.urlparse(url).hostname on the strings above, lower-cased:
\* "" where it is None; an unbalanced bracket in the network location makes
\* urlparse raise ValueError
UrlHostname(url) ==
    CASE url = "https://Example.org/a" -> [raised |-> FALSE, host |-> "example.org"]
      [] url = "https://example.com" -> [raised |-> FALSE, host |-> "example.com"]
      [] url = "https://example.net" -> [raised |-> FALSE, host |-> "example.net"]
      [] url \in {"https://[", "https://a]b"} -> [raised |-> TRUE, host |-> ""]
      [] OTHER -> [raised |-> FALSE, host |-> ""]

NoDomain == [raised |-> FALSE, host |-> ""]

\* _extract_domain: host "" is None
extract_domain(value) ==
    LET candidate == Strip(value)
        first     == UrlHostname(candidate)
    IN  IF candidate = "" THEN NoDomain
        ELSE IF first.raised \/ first.host # "" THEN first
        ELSE IF ~HasSchemeSeparator(candidate)
        THEN UrlHostname("https://" \o candidate)
        ELSE NoDomain

\* the chain of lines 76-84 over the keys still to try
RECURSIVE DomainFrom(_, _)
DomainFrom(message, keys) ==
    IF keys = <<>> THEN NoDomain
    ELSE IF message[Head(keys)] = Absent
    THEN DomainFrom(message, Tail(keys))
    ELSE LET found == extract_domain(message[Head(keys)])
         IN  IF found.raised \/ found.host # "" THEN found
             ELSE DomainFrom(message, Tail(keys))

DEFAULT_BUNDLE_BY_BROWSER(browser) ==
    CASE browser = "chrome" -> "com.google.Chrome"
      [] browser = "edge" -> "com.microsoft.edgemac"
      [] browser = "arc" -> "company.thebrowser.Browser"
      [] browser = "safari" -> "com.apple.Safari"
      [] OTHER -> ""

\* str.lower on the browser names above
Lower(value) == IF value = "Edge" THEN "edge" ELSE value

\* lines 88-101
BundleOf(message) ==
    LET given   == IF message.bundleId # Absent /\ Strip(message.bundleId) # ""
                   THEN Strip(message.bundleId)
                   ELSE IF message.bundle_id # Absent
                           /\ Strip(message.bundle_id) # ""
                   THEN Strip(message.bundle_id)
                   ELSE ""
        browser == IF message.browser # Absent
                   THEN DEFAULT_BUNDLE_BY_BROWSER(Lower(Strip(message.browser)))
                   ELSE ""
    IN  IF given # "" THEN given
        ELSE IF browser # "" THEN browser
        ELSE DEFAULT_BUNDLE_BY_BROWSER("chrome")

\* _normalize_payload: (None, None) is bundle_id "" and domain ""
normalize_payload(message) ==
    LET found == DomainFrom(message,
                            <<"domain", "active_domain", "url", "active_url">>)
    IN  IF found.raised
        THEN [raised |-> TRUE, bundle_id |-> "", domain |-> ""]
        ELSE IF found.host = ""
        THEN [raised |-> FALSE, bundle_id |-> "", domain |-> ""]
        ELSE [raised |-> FALSE, bundle_id |-> BundleOf(message),
              domain |-> found.host]

HostStart == [HostIdle EXCEPT !.pc = "read"]

InitHost ==
    /\ config \in {MakeConfig("fast_dsp", "off", "moderate", "rms", "off", TRUE, 980, 18, 80)}
    /\ avail = {}
    /\ pc = "host"
    /\ signal = <<>>
    /\ sample_rate = 0
    /\ speech_mask = None
    /\ work = <<>>
    /\ stats = EmptyDict
    /\ stage_in = <<>>
    /\ stage_stats = EmptyDict
    /\ trace = <<>>
    /\ apm = ApmIdle
    /\ meter = MeterIdle
    /\ submitted = <<>>
    /\ loop = LoopIdle
    /\ wav = WavIdle
    /\ host = HostStart

HostUnchanged ==
    UNCHANGED <<wav, loop, config, avail, pc, signal, sample_rate, speech_mask,
                work, stats, stage_in, stage_stats, trace, apm, meter,
                submitted>>

\* _read_message returns a dict (lines 33-49, 121)
HostReadMessage ==
    /\ host.pc = "read"
    /\ Len(host.received) < MaxFrames
    /\ \E message \in Messages :
          host' = [host EXCEPT !.pc = "handle",
                               !.message = <<message>>,
                               !.received = Append(host.received, message)]
    /\ HostUnchanged

\* _read_message returns None and main returns 0 (lines 35-48, 122-123)
HostReadNone ==
    /\ host.pc = "read"
    /\ \E why \in {"end_of_input", "truncated_length", "truncated_payload",
                   "not_json", "not_object"} :
          host' = [host EXCEPT !.pc = "exit_0", !.stop = why]
    /\ HostUnchanged

\* the rest of the loop body, lines 125-143; the write of the inbox file
\* succeeds or raises
HostHandle ==
    /\ host.pc = "handle"
    /\ \E normal \in {normalize_payload(host.message[1])},
          write_ok \in BOOLEAN :
          host' =
            IF normal.raised
            THEN [host EXCEPT !.pc = "exit_1", !.stop = "ValueError",
                              !.message = <<>>,
                              !.writes = Append(host.writes, "none")]
            ELSE IF normal.bundle_id = "" \/ normal.domain = ""
            THEN [host EXCEPT !.pc = "read", !.message = <<>>,
                              !.writes = Append(host.writes, "none"),
                              !.sent = Append(host.sent,
                                  [ok |-> FALSE,
                                   error |-> "Missing usable domain in message."])]
            ELSE IF ~write_ok
            THEN [host EXCEPT !.pc = "read", !.message = <<>>,
                              !.writes = Append(host.writes, "failed"),
                              !.sent = Append(host.sent,
                                  [ok |-> FALSE, error |-> "str(exc)"])]
            ELSE [host EXCEPT !.pc = "read", !.message = <<>>,
                              !.writes = Append(host.writes, "written"),
                              !.inbox = <<[bundleId |-> normal.bundle_id,
                                           activeDomain |-> normal.domain,
                                           source |-> "extension"]>>,
                              !.sent = Append(host.sent,
                                  [ok |-> TRUE,
                                   host |-> "com.codeandchill.ghosttype.context",
                                   bundleId |-> normal.bundle_id,
                                   activeDomain |-> normal.domain])]
    /\ HostUnchanged

NextHost == HostReadMessage \/ HostReadNone \/ HostHandle

SpecHost == InitHost /\ [][NextHost]_vars

\* response k is the one response to message k: ok = TRUE with the domain
\* and bundle of that message exactly when the inbox file was written for
\* it, ok = FALSE when it holds no usable domain or the write failed
AnswersInOrder ==
    \A k \in 1..Len(host.sent) :
        \E normal \in {normalize_payload(host.received[k])} :
            IF host.sent[k].ok
            THEN /\ host.writes[k] = "written"
                 /\ normal.domain # ""
                 /\ host.sent[k].activeDomain = normal.domain
                 /\ host.sent[k].bundleId = normal.bundle_id
                 /\ host.inbox # <<>>
            ELSE \/ host.writes[k] = "failed" /\ normal.domain # ""
                 \/ host.writes[k] = "none" /\ normal.domain = ""

\* C21, as claimed: every complete frame holding a JSON object gets exactly
\* one response, in order of receipt, and the host goes on reading; ok is
\* TRUE only after the inbox file was written for a usable domain and FALSE
\* when there is no usable domain or the write failed; the host ends only
\* with exit code 0, sending nothing more, at the end of the input, a
\* truncated frame or a payload that is not a JSON object.
C21_EveryMessageAnswered ==
    pc = "host" =>
        /\ host.pc \in {"read", "handle", "exit_0"}
        /\ Len(host.sent) =
               Len(host.received) - (IF host.pc = "handle" THEN 1 ELSE 0)
        /\ AnswersInOrder
        /\ host.pc = "exit_0" =>
               host.stop \in {"end_of_input", "truncated_length",
                              "truncated_payload", "not_json", "not_object"}

\* C21, what the host does: the same, except that a message whose first
\* non-blank domain field makes urlparse raise (an unbalanced bracket) gets
\* no response: the ValueError leaves main, the host ends with exit code 1
\* and nothing received later is read.
C21_AnsweredUnlessParseRaises ==
    pc = "host" =>
        /\ host.pc \in {"read", "handle", "exit_0", "exit_1"}
        /\ Len(host.sent) =
               Len(host.received)
                   - (IF host.pc \in {"handle", "exit_1"} THEN 1 ELSE 0)
        /\ AnswersInOrder
        /\ \A k \in 1..Len(host.received) :
               normalize_payload(host.received[k]).raised =>
                   /\ k = Len(host.received)
                   /\ host.pc \in {"handle", "exit_1"}
        /\ host.pc = "exit_1" =>
               normalize_payload(host.received[Len(host.received)]).raised
        /\ host.pc = "exit_0" =>
               host.stop \in {"end_of_input", "truncated_length",
                              "truncated_payload", "not_json", "not_object"}

=============================================================================
